---- MODULE Spec2Model ----
(***************************************************************************)
(* Model of the caching core of the Visual Crossing connector (Code.js):   *)
(* the chunked cache (cachePutChunked / cacheGetChunked /                  *)
(* cacheRemoveChunked) over the script cache, the month-partitioned range  *)
(* cache used by fetchVCSingle_, the batch result cache of fetchVCBatch_,  *)
(* the three branches of getData, concurrent invocations on one key, and   *)
(* clearCacheForDateRange / clearCacheForLocation.                         *)
(*                                                                         *)
(* Specifications: SpecCodec (one key), Spec (single-location queries),    *)
(* SpecConc (two writers and a reader, one store operation per step),      *)
(* SpecBatch (fetchVCBatch_ beside another invocation), SpecData (getData),*)
(* SpecClear (getData and the two clearing functions), SpecTimed (one key   *)
(* under a clock: each entry expires its expiration after its put),        *)
(* SpecFunctions (getMonthsInRange_ and groupLocationsForBatch_ on their    *)
(* inputs), SpecBuckets (month buckets of several locations and unit       *)
(* systems: populate, read, eviction of chunks) and SpecPattern            *)
(* (clearCacheByPattern).                                                  *)
(*                                                                         *)
(* Representation.                                                         *)
(*  - A JSON text is a sequence of lexical tokens (strings).  Lengths are   *)
(*    counted in tokens, one token standing for SizeUnit characters, so    *)
(*    the two size limits of Code.js are divided by SizeUnit.              *)
(*  - A "YYYY-MM-DD" date is the integer YYYYMMDD and a "YYYY-MM" month is  *)
(*    the integer YYYYMM: the order of the integers is the lexicographic   *)
(*    order of the strings and the order of the instants they denote.      *)
(*  - The calendar has MonthLen days in every month.                       *)
(*  - JavaScript undefined is the string Undefined; null results are       *)
(*    records with st = "null".                                            *)
(*  - Time is counted in seconds and advances TickLen seconds at a time.  *)
(***************************************************************************)
EXTENDS Integers, Sequences, FiniteSets, TLC

VARIABLES cache, last, written, evictions, queries, tz, up, procs, timing

vars == <<cache, last, written, evictions, queries, tz, up, procs, timing>>

\* ---------------------------------------------------------------- bounds
SizeUnit == 5000
MonthLen == 2
HoursPerDay == 1
MaxEvictions == 1
MaxQueries == 2
TickLen == 150
MaxTicks == 5

\* ------------------------------------------------------------- constants
MAX_CACHE_SIZE == 90000 \div SizeUnit

CHUNK_SIZE == 80000 \div SizeUnit

CACHE_MIN == 5

Undefined == "undefined"

Min(a, b) == IF a <= b THEN a ELSE b

\* ------------------------------------------------------- calendar, dates
Months == <<202412, 202501>>

MonthSet == {Months[i] : i \in 1..Len(Months)}

AllDates == {m * 100 + d : m \in MonthSet, d \in 1..MonthLen}

\* The dates a query range starts or ends on, around the month boundary:
\* the last day of the first month and the first two days of the next.
QueryDates == {Months[1] * 100 + MonthLen, Months[2] * 100 + 1, Months[2] * 100 + 2}

NextMonth(m) == IF m % 100 = 12 THEN (m \div 100 + 1) * 100 + 1 ELSE m + 1

PrevMonth(m) == IF m % 100 = 1 THEN (m \div 100 - 1) * 100 + 12 ELSE m - 1

\* The calendar month of a date string: its first seven characters.
MonthOfDate(d) == d \div 100

\* new Date("YYYY-MM-DD") is midnight UTC of that day; getFullYear() and
\* getMonth() read it in the script's time zone.  West of UTC (zone < 0)
\* the local day is the day before, so the first of a month reads as the
\* previous month.
LocalMonth(d, zone) ==
  IF zone < 0 /\ d % 100 = 1 THEN PrevMonth(MonthOfDate(d)) ELSE MonthOfDate(d)

\* Mutant of FirstOfMonthLeq: the first of the month is compared strictly in
\* every time zone.
FirstOfMonthLeqStrict(m, e, zone) == m * 100 + 1 < e

\* new Date(year, month, 1) <= new Date("YYYY-MM-DD"): local midnight of the
\* first of month m against midnight UTC of day e.  Local midnight is later
\* than UTC midnight west of UTC, and not later otherwise.
FirstOfMonthLeq(m, e, zone) ==
  IF zone < 0 THEN m * 100 + 1 < e ELSE m * 100 + 1 <= e

\* "YYYY-MM" as written by getFullYear() + '-' + padStart(2, '0').
MonthStr(m) ==
  ToString(m \div 100) \o "-" \o
  (IF m % 100 < 10 THEN "0" ELSE "") \o ToString(m % 100)

\* ------------------------------------------------------------ JSON texts
\* The numbers a text can hold, and the number each numeric token denotes.
Nums == AllDates \cup (0..(MonthLen + HoursPerDay))

NumTokens == [tok \in {ToString(n) : n \in Nums} |-> CHOOSE n \in Nums : ToString(n) = tok]

IsNumTok(tok) == tok \in DOMAIN NumTokens

NumOf(tok) == NumTokens[tok]

Addresses == {"Berlin, DE", "Berlin, Germany"}

RaTok(a) == "resolvedAddress:" \o a

AdTok(a) == "address:" \o a

IsRaTok(tok) == \E a \in Addresses : RaTok(a) = tok

IsAdTok(tok) == \E a \in Addresses : AdTok(a) = tok

RaOf(tok) == CHOOSE a \in Addresses : RaTok(a) = tok

AdOf(tok) == CHOOSE a \in Addresses : AdTok(a) = tok

Rec(dt, tmp) == [datetime |-> dt, temp |-> tmp, hasHours |-> FALSE, hours |-> <<>>]

DayRec(dt, tmp, hrs) == [datetime |-> dt, temp |-> tmp, hasHours |-> TRUE, hours |-> hrs]

Bucket(ra, ad, days) == [resolvedAddress |-> ra, address |-> ad, days |-> days]

NoValue == Bucket(Undefined, Undefined, <<>>)

RECURSIVE StringifyRecs(_)

\* JSON.stringify of one day or hour record; a field that is undefined is
\* left out.
StringifyRec(r) ==
  <<"{", ToString(r.datetime), ToString(r.temp)>>
    \o (IF r.hasHours THEN <<"[">> \o StringifyRecs(r.hours) \o <<"]">> ELSE <<>>)
    \o <<"}">>

StringifyRecs(rs) ==
  IF rs = <<>> THEN <<>> ELSE StringifyRec(Head(rs)) \o StringifyRecs(Tail(rs))

\* JSON.stringify of a month bucket / a timeline response.
StringifyBucket(b) ==
  <<"{">>
    \o (IF b.resolvedAddress = Undefined THEN <<>> ELSE <<RaTok(b.resolvedAddress)>>)
    \o (IF b.address = Undefined THEN <<>> ELSE <<AdTok(b.address)>>)
    \o <<"[">> \o StringifyRecs(b.days) \o <<"]", "}">>

Tok(t, i) == IF i \in 1..Len(t) THEN t[i] ELSE "<eof>"

RECURSIVE ParseHoursAt(_, _, _)

\* The hour records from token i on, appended to acc, up to the first token
\* that does not start one: [recs, next].
ParseHoursAt(t, i, acc) ==
  IF /\ Tok(t, i) = "{" /\ IsNumTok(Tok(t, i + 1)) /\ IsNumTok(Tok(t, i + 2))
     /\ Tok(t, i + 3) = "}"
  THEN ParseHoursAt(t, i + 4, Append(acc, Rec(NumOf(t[i + 1]), NumOf(t[i + 2]))))
  ELSE [recs |-> acc, next |-> i]

RECURSIVE ParseDaysAt(_, _, _)

RECURSIVE DayWithHours(_, _, _, _)

\* The day record that opens at token i and whose hours array, parsed as hs,
\* opens at token i + 3, followed by the days after it.
DayWithHours(t, i, acc, hs) ==
  IF Tok(t, hs.next) = "]" /\ Tok(t, hs.next + 1) = "}"
  THEN ParseDaysAt(t, hs.next + 2,
                   Append(acc, DayRec(NumOf(t[i + 1]), NumOf(t[i + 2]), hs.recs)))
  ELSE [ok |-> FALSE, recs |-> <<>>, next |-> i]

\* The day records from token i on, appended to acc, up to the first token
\* that opens none: [ok, recs, next]; ok = FALSE when a record is malformed.
ParseDaysAt(t, i, acc) ==
  IF Tok(t, i) # "{" THEN [ok |-> TRUE, recs |-> acc, next |-> i]
  ELSE IF ~(IsNumTok(Tok(t, i + 1)) /\ IsNumTok(Tok(t, i + 2)))
  THEN [ok |-> FALSE, recs |-> <<>>, next |-> i]
  ELSE IF Tok(t, i + 3) = "}"
  THEN ParseDaysAt(t, i + 4, Append(acc, Rec(NumOf(t[i + 1]), NumOf(t[i + 2]))))
  ELSE IF Tok(t, i + 3) = "["
  THEN DayWithHours(t, i, acc, ParseHoursAt(t, i + 4, <<>>))
  ELSE [ok |-> FALSE, recs |-> <<>>, next |-> i]

\* The end of the bucket text whose days array closes at token n.
ClosedAt(t, n) == Tok(t, n) = "]" /\ Tok(t, n + 1) = "}" /\ n + 1 = Len(t)

\* The bucket of a text whose days array, parsed as ds, opens at token i:
\* [ok, v]; ok = FALSE is the SyntaxError.
BucketAt(t, i, ds) ==
  IF Tok(t, 1) = "{" /\ Tok(t, i) = "[" /\ ds.ok /\ ClosedAt(t, ds.next)
  THEN [ok |-> TRUE,
        v |-> Bucket(IF IsRaTok(Tok(t, 2)) THEN RaOf(t[2]) ELSE Undefined,
                     IF IsAdTok(Tok(t, i - 1)) THEN AdOf(t[i - 1]) ELSE Undefined,
                     ds.recs)]
  ELSE [ok |-> FALSE, v |-> NoValue]

\* The token at which the days array opens: after the address fields.
DaysStart(t) ==
  (IF IsRaTok(Tok(t, 2)) THEN 3 ELSE 2)
    + (IF IsAdTok(Tok(t, IF IsRaTok(Tok(t, 2)) THEN 3 ELSE 2)) THEN 1 ELSE 0)

\* JSON.parse of a bucket text.
ParseBucket(t) == BucketAt(t, DaysStart(t), ParseDaysAt(t, DaysStart(t) + 1, <<>>))

\* The body of a timelinemulti response, {locations: [...]}: one timeline
\* object per location, in the order of the request.
Batch(locations) == [locations |-> locations]

RECURSIVE StringifyBuckets(_)

StringifyBuckets(bs) ==
  IF bs = <<>> THEN <<>> ELSE StringifyBucket(Head(bs)) \o StringifyBuckets(Tail(bs))

StringifyBatch(p) ==
  <<"{locations", "[">> \o StringifyBuckets(p.locations) \o <<"]", "}">>

RECURSIVE CloseOf(_, _, _)

\* The token that closes the object opened at or after token i at nesting
\* depth; 0 when the text ends first.
CloseOf(t, i, depth) ==
  IF i > Len(t) THEN 0
  ELSE IF t[i] = "{" THEN CloseOf(t, i + 1, depth + 1)
  ELSE IF t[i] = "}" THEN (IF depth = 1 THEN i ELSE CloseOf(t, i + 1, depth - 1))
  ELSE CloseOf(t, i + 1, depth)

RECURSIVE ParseLocationsAt(_, _, _)

RECURSIVE LocationAt(_, _, _, _)

\* The location object of tokens i..j, parsed as p, and the ones after it.
LocationAt(t, j, acc, p) ==
  IF p.ok THEN ParseLocationsAt(t, j + 1, Append(acc, p.v))
  ELSE [ok |-> FALSE, locs |-> <<>>, next |-> j]

\* The location objects from token i on: [ok, locs, next].
ParseLocationsAt(t, i, acc) ==
  IF Tok(t, i) # "{" THEN [ok |-> TRUE, locs |-> acc, next |-> i]
  ELSE IF CloseOf(t, i, 0) = 0 THEN [ok |-> FALSE, locs |-> <<>>, next |-> i]
  ELSE LocationAt(t, CloseOf(t, i, 0), acc, ParseBucket(SubSeq(t, i, CloseOf(t, i, 0))))

\* The batch of a text whose locations array was parsed as ls.
BatchAt(t, ls) ==
  IF /\ Tok(t, 1) = "{locations" /\ Tok(t, 2) = "[" /\ ls.ok
     /\ Tok(t, ls.next) = "]" /\ Tok(t, ls.next + 1) = "}" /\ ls.next + 1 = Len(t)
  THEN [ok |-> TRUE, v |-> Batch(ls.locs)]
  ELSE [ok |-> FALSE, v |-> NoValue]

ParseBatch(t) == BatchAt(t, ParseLocationsAt(t, 3, <<>>))

\* The values of a row: a string, a number or null.
Str(x) == [t |-> "str", s |-> x, n |-> 0]

Num(x) == [t |-> "num", s |-> "", n |-> x]

Null == [t |-> "null", s |-> "", n |-> 0]

StoreIds == {"s1", "s2"}

\* The strings a row can hold.
RowStrings == Addresses \cup StoreIds \cup {""} \cup DOMAIN NumTokens

StrTok(x) == "s:" \o x

IsStrTok(tok) == \E x \in RowStrings : StrTok(x) = tok

StrOf(tok) == CHOOSE x \in RowStrings : StrTok(x) = tok

ValueTok(v) ==
  IF v.t = "str" THEN StrTok(v.s) ELSE IF v.t = "num" THEN ToString(v.n) ELSE "null"

IsValueTok(tok) == tok = "null" \/ IsNumTok(tok) \/ IsStrTok(tok)

ValueOf(tok) ==
  IF tok = "null" THEN Null ELSE IF IsNumTok(tok) THEN Num(NumOf(tok)) ELSE Str(StrOf(tok))

\* The master dataset: the array of the rows {values: [...]} of a query.
Master(rows) == [rows |-> rows]

StringifyRow(row) ==
  <<"{values", "[">> \o [i \in 1..Len(row.values) |-> ValueTok(row.values[i])]
    \o <<"]", "}">>

RECURSIVE StringifyRows(_)

StringifyRows(rows) ==
  IF rows = <<>> THEN <<>> ELSE StringifyRow(Head(rows)) \o StringifyRows(Tail(rows))

StringifyMaster(m) == <<"[">> \o StringifyRows(m.rows) \o <<"]">>

RECURSIVE ParseValuesAt(_, _, _)

ParseValuesAt(t, i, acc) ==
  IF IsValueTok(Tok(t, i)) THEN ParseValuesAt(t, i + 1, Append(acc, ValueOf(t[i])))
  ELSE [vals |-> acc, next |-> i]

RECURSIVE ParseRowsAt(_, _, _)

RECURSIVE RowAt(_, _, _)

\* The row whose values array was parsed as vs, and the rows after it.
RowAt(t, acc, vs) ==
  IF Tok(t, vs.next) = "]" /\ Tok(t, vs.next + 1) = "}"
  THEN ParseRowsAt(t, vs.next + 2, Append(acc, [values |-> vs.vals]))
  ELSE [ok |-> FALSE, rows |-> <<>>, next |-> vs.next]

\* The rows from token i on: [ok, rows, next].
ParseRowsAt(t, i, acc) ==
  IF Tok(t, i) # "{values" THEN [ok |-> TRUE, rows |-> acc, next |-> i]
  ELSE IF Tok(t, i + 1) # "[" THEN [ok |-> FALSE, rows |-> <<>>, next |-> i]
  ELSE RowAt(t, acc, ParseValuesAt(t, i + 2, <<>>))

MasterAt(t, rs) ==
  IF Tok(t, 1) = "[" /\ rs.ok /\ Tok(t, rs.next) = "]" /\ rs.next = Len(t)
  THEN [ok |-> TRUE, v |-> Master(rs.rows)]
  ELSE [ok |-> FALSE, v |-> NoValue]

ParseMaster(t) == MasterAt(t, ParseRowsAt(t, 2, <<>>))

\* JSON.stringify of a value the connector caches: a batch response, a
\* master dataset or a month bucket.
Stringify(v) ==
  IF "locations" \in DOMAIN v THEN StringifyBatch(v)
  ELSE IF "rows" \in DOMAIN v THEN StringifyMaster(v)
  ELSE StringifyBucket(v)

\* JSON.parse: [ok, v]; ok = FALSE is the SyntaxError.
JsonParse(t) ==
  IF Tok(t, 1) = "{locations" THEN ParseBatch(t)
  ELSE IF Tok(t, 1) = "[" THEN ParseMaster(t)
  ELSE ParseBucket(t)

\* JSON.stringify of the chunk metadata {chunks, totalSize, chunkCount}.
StringifyMeta(chunks, totalSize) ==
  <<"{", "[">> \o chunks \o <<"]", ToString(totalSize), ToString(Len(chunks)), "}">>

\* JSON.parse of a metadata text: [ok, chunks].
ParseMeta(t) ==
  LET n == Len(t)
  IN IF /\ n >= 6
        /\ t[1] = "{" /\ t[2] = "[" /\ t[n - 3] = "]" /\ t[n] = "}"
        /\ \A i \in 3..(n - 4) : t[i] \notin {"{", "}", "[", "]"}
     THEN [ok |-> TRUE, chunks |-> SubSeq(t, 3, n - 4)]
     ELSE [ok |-> FALSE, chunks |-> <<>>]

\* ------------------------------------------------------- the script cache
\* CacheService's cache: a partial map from key to text.
StoreGet(c, key) == IF key \in DOMAIN c THEN c[key] ELSE <<>>

StoreHas(c, key) == key \in DOMAIN c

StorePut(c, key, text) ==
  [k \in DOMAIN c \cup {key} |-> IF k = key THEN text ELSE c[k]]

StoreRemove(c, key) == [k \in DOMAIN c \ {key} |-> c[k]]

MetaKey(key) == key \o "_meta"

ChunkKey(key, i) == key \o "_chunk_" \o ToString(i)

\* ------------------------------------------------------ the chunked cache
RECURSIVE PutChunksNewestFirst(_, _, _, _, _, _)

\* Mutant of PutChunks: each chunk key is put at the front of the list the
\* metadata will hold.
PutChunksNewestFirst(c, key, jsonString, start, chunkIndex, chunks) ==
  IF start < Len(jsonString)
  THEN LET end == Min(start + CHUNK_SIZE, Len(jsonString))
           chunk == SubSeq(jsonString, start + 1, end)
           chunkKey == ChunkKey(key, chunkIndex)
       IN PutChunksNewestFirst(StorePut(c, chunkKey, chunk), key, jsonString, end,
                               chunkIndex + 1, <<chunkKey>> \o chunks)
  ELSE [cache |-> c, chunks |-> chunks]

RECURSIVE PutChunks(_, _, _, _, _, _)

\* The while loop of cachePutChunked: one chunk per turn, put under
\* key_chunk_<chunkIndex>; start counts the characters already written.
PutChunks(c, key, jsonString, start, chunkIndex, chunks) ==
  IF start < Len(jsonString)
  THEN LET end == Min(start + CHUNK_SIZE, Len(jsonString))
           chunk == SubSeq(jsonString, start + 1, end)
           chunkKey == ChunkKey(key, chunkIndex)
       IN PutChunks(StorePut(c, chunkKey, chunk), key, jsonString, end,
                    chunkIndex + 1, Append(chunks, chunkKey))
  ELSE [cache |-> c, chunks |-> chunks]

\* The metadata record put after the chunks w of a text of totalSize.
PutMeta(w, key, totalSize) ==
  [cache |-> StorePut(w.cache, MetaKey(key), StringifyMeta(w.chunks, totalSize)),
   chunks |-> Len(w.chunks)]

\* Mutant of PutText: every text is written as a direct entry.
PutTextAlwaysDirect(c, key, jsonString) ==
  [cache |-> StorePut(c, key, jsonString), chunks |-> 1]

\* Mutant of PutText: a text of exactly MAX_CACHE_SIZE is chunked.
PutTextStrictCeiling(c, key, jsonString) ==
  IF Len(jsonString) < MAX_CACHE_SIZE
  THEN [cache |-> StorePut(c, key, jsonString), chunks |-> 1]
  ELSE PutMeta(PutChunks(c, key, jsonString, 0, 0, <<>>), key, Len(jsonString))

\* cachePutChunked from the serialized text on.
PutText(c, key, jsonString) ==
  IF Len(jsonString) <= MAX_CACHE_SIZE
  THEN [cache |-> StorePut(c, key, jsonString), chunks |-> 1]
  ELSE PutMeta(PutChunks(c, key, jsonString, 0, 0, <<>>), key, Len(jsonString))

\* cachePutChunked(key, data): the cache afterwards and the chunk count it
\* returns.
CachePutChunked(c, key, data) == PutText(c, key, Stringify(data))

RECURSIVE JoinChunksReversed(_, _)

\* Mutant of JoinChunks: the chunks joined last to first.
JoinChunksReversed(c, chunks) ==
  IF chunks = <<>> THEN <<>>
  ELSE JoinChunksReversed(c, Tail(chunks)) \o StoreGet(c, Head(chunks))

RECURSIVE JoinChunks(_, _)

\* The chunks that are present, joined in the order the metadata lists them.
JoinChunks(c, chunks) ==
  IF chunks = <<>> THEN <<>>
  ELSE StoreGet(c, Head(chunks)) \o JoinChunks(c, Tail(chunks))

MissingChunks(c, chunks) ==
  {i \in 1..Len(chunks) : StoreGet(c, chunks[i]) = <<>>}

\* The outcome p of JSON.parse as cacheGetChunked returns or throws it.
Parsed(p) ==
  IF p.ok THEN [st |-> "value", v |-> p.v] ELSE [st |-> "error", v |-> NoValue]

\* cacheGetChunked(key): st = "value" with the value, "null", or "error"
\* when JSON.parse throws.
CacheGetChunked(c, key) ==
  LET singleData == StoreGet(c, key)
      metadataStr == StoreGet(c, MetaKey(key))
      metadata == ParseMeta(metadataStr)
  IN IF singleData # <<>> THEN Parsed(JsonParse(singleData))
     ELSE IF metadataStr = <<>> THEN [st |-> "null", v |-> NoValue]
     ELSE IF ~metadata.ok THEN [st |-> "error", v |-> NoValue]
     ELSE IF MissingChunks(c, metadata.chunks) # {} THEN [st |-> "null", v |-> NoValue]
     ELSE Parsed(JsonParse(JoinChunks(c, metadata.chunks)))

RECURSIVE RemoveAll(_, _)

RemoveAll(c, keys) ==
  IF keys = <<>> THEN c ELSE RemoveAll(StoreRemove(c, Head(keys)), Tail(keys))

\* Mutant of CacheRemoveChunked: the direct entry is not removed.
CacheRemoveChunkedKeepsDirect(c, key) ==
  LET metadataStr == StoreGet(c, MetaKey(key))
      metadata == ParseMeta(metadataStr)
  IN IF metadataStr = <<>> THEN [cache |-> c, st |-> "ok"]
     ELSE IF ~metadata.ok THEN [cache |-> c, st |-> "error"]
     ELSE [cache |-> StoreRemove(RemoveAll(c, metadata.chunks), MetaKey(key)),
           st |-> "ok"]

\* cacheRemoveChunked(key): the cache afterwards; st = "error" when the
\* metadata does not parse (the direct entry is removed before that).
CacheRemoveChunked(c, key) ==
  LET c1 == StoreRemove(c, key)
      metadataStr == StoreGet(c1, MetaKey(key))
      metadata == ParseMeta(metadataStr)
  IN IF metadataStr = <<>> THEN [cache |-> c1, st |-> "ok"]
     ELSE IF ~metadata.ok THEN [cache |-> c1, st |-> "error"]
     ELSE [cache |-> StoreRemove(RemoveAll(c1, metadata.chunks), MetaKey(key)),
           st |-> "ok"]

\* ------------------------------------------------ observations of a state
\* Every store key cachePutChunked can derive from a key.
KeyEntries(key) ==
  {key, MetaKey(key)} \cup {ChunkKey(key, i) : i \in 0..(4 * MAX_CACHE_SIZE)}

KeyFresh(c, key) == DOMAIN c \cap KeyEntries(key) = {}

\* The metadata record is present and a chunk it lists is not.
Torn(c, key) ==
  LET metadata == ParseMeta(StoreGet(c, MetaKey(key)))
  IN /\ StoreHas(c, MetaKey(key))
     /\ metadata.ok
     /\ MissingChunks(c, metadata.chunks) # {}

\* ------------------------------------------------------ upstream payloads
\* The hours array of a day, when upstream sends one.
Hours == [h \in 1..HoursPerDay |-> Rec(h - 1, h - 1)]

UpstreamDay(d, withHours) ==
  IF withHours THEN DayRec(d, d % 100, Hours) ELSE Rec(d, d % 100)

RECURSIVE DaysFrom(_, _, _)

\* The day records upstream holds from date d to date e, ascending.
DaysFrom(d, e, withHours) ==
  IF d > e THEN <<>>
  ELSE <<UpstreamDay(d, withHours)>> \o
       DaysFrom(IF d % 100 < MonthLen THEN d + 1 ELSE NextMonth(MonthOfDate(d)) * 100 + 1,
                e, withHours)

\* --------------------------------------------- codec-level specification
ScratchKey == "scratch"

FirstDate == Months[1] * 100 + 1

LastDate == Months[Len(Months)] * 100 + MonthLen

\* The first n days upstream holds, with or without their hours.
FirstDays(n, withHours) == SubSeq(DaysFrom(FirstDate, LastDate, withHours), 1, n)

\* Values of several serialized lengths: direct entries, one of exactly the
\* ceiling, two-chunk and three-chunk ones.
TestValues ==
  {Bucket("Berlin, Germany", "Berlin, DE", FirstDays(n, TRUE)) : n \in 0..3}
  \cup {Bucket(Undefined, Undefined, Tail(FirstDays(n, TRUE))) : n \in 2..3}
  \cup {Bucket("Berlin, Germany", "Berlin, DE", FirstDays(3, FALSE))}

Unwritten == [known |-> FALSE, val |-> NoValue]

InitCodec ==
  /\ cache = <<>>
  /\ last = [op |-> "init"]
  /\ written = Unwritten
  /\ evictions = 0
  /\ queries = 0
  /\ tz = 0
  /\ up = [hours |-> TRUE, addr |-> "both"]
  /\ timing = <<>>
  /\ procs = <<>>

\* What a call's record keeps of the call before it.
Before(l) ==
  CASE l.op = "put" ->
         [op |-> "put", val |-> l.val, chunks |-> l.chunks, fresh |-> l.fresh,
          over |-> l.over]
    [] l.op = "remove" -> [op |-> "remove", had |-> l.had, again |-> l.again]
    [] OTHER -> [op |-> l.op]

\* A call of cachePutChunked(ScratchKey, v); over is the chunk count of the
\* write it directly follows, 0 when it follows no write.
Put(v) ==
  /\ \E w \in {CachePutChunked(cache, ScratchKey, v)} :
       /\ cache' = w.cache
       /\ last' = [op |-> "put", key |-> ScratchKey, val |-> v, chunks |-> w.chunks,
                   fresh |-> KeyFresh(cache, ScratchKey),
                   over |-> IF last.op = "put" THEN last.chunks ELSE 0]
  /\ written' = [known |-> TRUE, val |-> v]
  /\ UNCHANGED <<evictions, queries, tz, up, procs, timing>>

\* A call of cacheGetChunked(ScratchKey); before is the call it follows.
Get ==
  /\ \E r \in {CacheGetChunked(cache, ScratchKey)} :
       last' = [op |-> "get", key |-> ScratchKey, st |-> r.st, ret |-> r.v,
                torn |-> Torn(cache, ScratchKey), before |-> Before(last)]
  /\ UNCHANGED <<cache, written, evictions, queries, tz, up, procs, timing>>

\* A call of cacheRemoveChunked(ScratchKey); had is what the key held before
\* the first of a run of removes, left the entries of the key still stored
\* when the call returns.
Remove ==
  /\ \E r \in {CacheRemoveChunked(cache, ScratchKey)} :
       /\ cache' = r.cache
       /\ last' = [op |-> "remove", key |-> ScratchKey, st |-> r.st,
                   had |-> IF last.op = "remove" THEN last.had
                           ELSE IF StoreHas(cache, MetaKey(ScratchKey)) THEN "chunked"
                           ELSE IF StoreHas(cache, ScratchKey) THEN "direct"
                           ELSE "none",
                   again |-> last.op = "remove",
                   left |-> DOMAIN r.cache \cap KeyEntries(ScratchKey)]
  /\ written' = Unwritten
  /\ UNCHANGED <<evictions, queries, tz, up, procs, timing>>

\* The script cache drops one entry: its time to live ran out, it was
\* evicted, or it was removed out of band.
Evict(k) ==
  /\ evictions < MaxEvictions
  /\ k \in DOMAIN cache
  /\ cache' = StoreRemove(cache, k)
  /\ last' = [op |-> "evict", key |-> k]
  /\ written' = Unwritten
  /\ evictions' = evictions + 1
  /\ UNCHANGED <<queries, tz, up, procs, timing>>

NextCodec ==
  \/ \E v \in TestValues : Put(v)
  \/ Get
  \/ Remove
  \/ \E k \in DOMAIN cache : Evict(k)

SpecCodec == InitCodec /\ [][NextCodec]_vars

\* --------------------------------------------- the month-partitioned cache
\* Utilities.computeDigest(MD5, s), taken as injective.
ComputeDigest(s) == "md5(" \o s \o ")"

\* Mutant of MonthBucketKey: the units are not part of the hashed string.
MonthBucketKeyNoUnits(location, units, m) ==
  "monthly:" \o ComputeDigest(location) \o ":" \o MonthStr(m)

\* 'monthly:' + locationHash + ':' + month
MonthBucketKey(location, units, m) ==
  "monthly:" \o ComputeDigest(location \o "|" \o units) \o ":" \o MonthStr(m)

RECURSIVE MonthsLoop(_, _, _)

\* The while loop of getMonthsInRange_: current is the month whose first day,
\* at local midnight, is compared with the end date.
MonthsLoop(current, endDate, zone) ==
  IF FirstOfMonthLeq(current, endDate, zone)
  THEN <<current>> \o MonthsLoop(NextMonth(current), endDate, zone)
  ELSE <<>>

\* getMonthsInRange_(startDate, endDate) in a script whose time zone is zone.
GetMonthsInRange(startDate, endDate, zone) ==
  MonthsLoop(LocalMonth(startDate, zone), endDate, zone)

\* JavaScript truthiness of a string field.
Truthy(x) == x \notin {Undefined, ""}

\* a || b || c
Or3(a, b, c) == IF Truthy(a) THEN a ELSE IF Truthy(b) THEN b ELSE c

Row(locKey, r) == [store_id |-> "", location_key |-> locKey, rec |-> r]

RECURSIVE InsertByDate(_, _)

InsertByDate(sorted, r) ==
  IF sorted = <<>> THEN <<r>>
  ELSE IF Head(sorted).datetime <= r.datetime
  THEN <<Head(sorted)>> \o InsertByDate(Tail(sorted), r)
  ELSE <<r>> \o sorted

RECURSIVE SortByDate(_)

\* allDays.sort by new Date(datetime): ascending and stable.
SortByDate(rs) ==
  IF rs = <<>> THEN <<>>
  ELSE InsertByDate(SortByDate(SubSeq(rs, 1, Len(rs) - 1)), rs[Len(rs)])

RECURSIVE ConcatDays(_)

ConcatDays(buckets) ==
  IF buckets = <<>> THEN <<>> ELSE Head(buckets).days \o ConcatDays(Tail(buckets))

\* The day-level filter of mergeCachedData_: the first ten characters of
\* datetime between range.start and range.end, both included.
InRange(day, startDate, endDate) ==
  day.datetime >= startDate /\ day.datetime <= endDate

\* The rows mergeCachedData_ builds from the filtered days.
ResultRows(locKey, filteredDays) ==
  [i \in 1..Len(filteredDays) |-> Row(locKey, filteredDays[i])]

\* mergeCachedData_(cachedDataArray, range)
MergeCachedData(cachedDataArray, startDate, endDate) ==
  LET Keep(day) == InRange(day, startDate, endDate)
  IN ResultRows(IF Len(cachedDataArray) > 0
                THEN Or3(cachedDataArray[1].resolvedAddress,
                         cachedDataArray[1].address, "")
                ELSE "",
                SelectSeq(SortByDate(ConcatDays(cachedDataArray)), Keep))

\* The test of getCachedDataForRange_ on what cacheGetChunked returned for a
\* month: monthData && monthData.days && monthData.days.length > 0.
MonthFound(g) == g.st = "value" /\ Len(g.v.days) > 0

\* The months.forEach loop of getCachedDataForRange_: what cacheGetChunked
\* returns for each month.
MonthReads(c, location, units, months) ==
  [i \in 1..Len(months) |->
     CacheGetChunked(c, MonthBucketKey(location, units, months[i]))]

\* What getCachedDataForRange_ makes of the reads of its months: st = "rows"
\* with the rows, "null", or "error" when a cacheGetChunked throws.
RangeOutcome(reads, startDate, endDate) ==
  IF \E i \in 1..Len(reads) : reads[i].st = "error"
  THEN [st |-> "error", rows |-> <<>>]
  ELSE IF \E i \in 1..Len(reads) : ~MonthFound(reads[i])
  THEN [st |-> "null", rows |-> <<>>]
  ELSE IF Len(reads) = 0 THEN [st |-> "null", rows |-> <<>>]
  ELSE [st |-> "rows",
        rows |-> MergeCachedData([i \in 1..Len(reads) |-> reads[i].v],
                                 startDate, endDate)]

\* getCachedDataForRange_(location, range, cfg)
GetCachedDataForRange(c, location, units, startDate, endDate, zone) ==
  RangeOutcome(MonthReads(c, location, units,
                          GetMonthsInRange(startDate, endDate, zone)),
               startDate, endDate)

RECURSIVE MonthKeysOf(_, _, _)

\* Object.keys(monthlyData): the months of the days in order of first
\* appearance, each day's month read in the script's time zone.
MonthKeysOf(days, zone, seen) ==
  IF days = <<>> THEN <<>>
  ELSE LET m == LocalMonth(Head(days).datetime, zone)
       IN IF m \in seen THEN MonthKeysOf(Tail(days), zone, seen)
          ELSE <<m>> \o MonthKeysOf(Tail(days), zone, seen \cup {m})

\* monthlyData[month] as cacheDataByMonthChunks_ builds it.
MonthlyData(json, m, zone) ==
  LET OfMonth(day) == LocalMonth(day.datetime, zone) = m
  IN Bucket(json.resolvedAddress, json.address, SelectSeq(json.days, OfMonth))

RECURSIVE PutMonths(_, _, _, _, _, _)

PutMonths(c, location, units, json, months, zone) ==
  IF months = <<>> THEN c
  ELSE PutMonths(CachePutChunked(c, MonthBucketKey(location, units, Head(months)),
                                 MonthlyData(json, Head(months), zone)).cache,
                 location, units, json, Tail(months), zone)

\* cacheDataByMonthChunks_(location, json, cfg): the cache afterwards.
CacheDataByMonthChunks(c, location, units, json, zone) ==
  IF Len(json.days) = 0 THEN c
  ELSE PutMonths(c, location, units, json, MonthKeysOf(json.days, zone, {}), zone)

\* ------------------------------------------------------------- upstream
ResolvedName(location) == "Berlin, Germany"

\* The body of a successful timeline response for a range; shape says
\* whether the days carry an hours array and which address fields are set.
UpstreamJson(location, startDate, endDate, shape) ==
  Bucket(IF shape.addr = "both" THEN ResolvedName(location) ELSE Undefined,
         IF shape.addr \in {"both", "address"} THEN location ELSE Undefined,
         DaysFrom(startDate, endDate, shape.hours))

\* responseCode >= 400 throws; so does a body JSON.parse rejects.
FetchFails(resp) == resp.code >= 400 \/ ~resp.json

RECURSIVE OutRows(_, _, _)

\* The rows fetchVCSingle_ builds from json.days.
OutRows(days, dataType, locKey) ==
  IF days = <<>> THEN <<>>
  ELSE LET day == Head(days)
           these == IF dataType = "hourly" /\ day.hasHours
                    THEN [i \in 1..Len(day.hours) |-> Row(locKey, day.hours[i])]
                    ELSE <<Row(locKey, day)>>
       IN these \o OutRows(Tail(days), dataType, locKey)

HitTrace == <<"TRY_RANGE_CACHE", "HIT", "RETURN">>

MissTrace ==
  <<"TRY_RANGE_CACHE", "MISS", "FETCH_UPSTREAM", "POPULATE_RANGE_CACHE", "RETURN">>

AbortTrace == <<"TRY_RANGE_CACHE", "MISS", "FETCH_UPSTREAM", "ABORT">>

\* fetchVCSingle_ from the upstream call on; json is the parsed body of a
\* response that has one.
FetchUpstream(c, location, units, dataType, zone, resp, json) ==
  IF FetchFails(resp)
  THEN [cache |-> c, st |-> "error", rows |-> <<>>, calls |-> 1, trace |-> AbortTrace]
  ELSE [cache |-> CacheDataByMonthChunks(c, location, units, json, zone),
        st |-> "ok",
        rows |-> OutRows(json.days, dataType,
                         Or3(json.resolvedAddress, json.address, location)),
        calls |-> 1, trace |-> MissTrace]

\* Mutant of AfterLookup: a lookup that yields no row is a hit as well.
AfterLookupEmptyHit(cachedData, c, location, units, dataType, zone, resp, json) ==
  IF cachedData.st = "rows"
  THEN [cache |-> c, st |-> "ok", rows |-> cachedData.rows, calls |-> 0,
        trace |-> HitTrace]
  ELSE FetchUpstream(c, location, units, dataType, zone, resp, json)

\* fetchVCSingle_ from the result of the lookup on.
AfterLookup(cachedData, c, location, units, dataType, zone, resp, json) ==
  IF cachedData.st = "rows" /\ Len(cachedData.rows) > 0
  THEN [cache |-> c, st |-> "ok", rows |-> cachedData.rows, calls |-> 0,
        trace |-> HitTrace]
  ELSE FetchUpstream(c, location, units, dataType, zone, resp, json)

\* Mutant of FetchVCSingle: the range cache is not consulted.
FetchVCSingleNoLookup(c, location, units, dataType, startDate, endDate, zone, resp, shape) ==
  FetchUpstream(c, location, units, dataType, zone, resp,
                UpstreamJson(location, startDate, endDate, shape))

\* fetchVCSingle_(location, range, cfg, key): the cache afterwards, the rows
\* returned (st = "ok") or the user error thrown (st = "error"), the number
\* of UrlFetchApp.fetch calls and the steps taken in order.
FetchVCSingle(c, location, units, dataType, startDate, endDate, zone, resp, shape) ==
  AfterLookup(GetCachedDataForRange(c, location, units, startDate, endDate, zone),
              c, location, units, dataType, zone, resp,
              UpstreamJson(location, startDate, endDate, shape))

\* ------------------------------------------- single-location specification
Locations == {"Berlin, DE"}

UnitsSet == {"metric"}

DataTypes == {"daily", "hourly"}

\* Script time zones by the sign of their offset: west of UTC, UTC, east
\* of UTC.
TimeZones == {-1, 0, 1}

Shapes == [hours : BOOLEAN, addr : {"both", "address", "none"}]

Responses ==
  {[code |-> 200, json |-> TRUE], [code |-> 200, json |-> FALSE],
   [code |-> 404, json |-> FALSE]}

\* The response of a resolution that did not ask upstream.
NoResponse == [code |-> 0, json |-> FALSE]

\* Every month a bucket can be keyed by: the months of the dates and the
\* month before them.
AllMonths == MonthSet \cup {PrevMonth(Months[1])}

\* The calendar months a range touches: from the month of its start date to
\* the month of its end date.
TouchedMonths(startDate, endDate) ==
  {m \in AllMonths : MonthOfDate(startDate) <= m /\ m <= MonthOfDate(endDate)}

SeqToSet(q) == {q[i] : i \in 1..Len(q)}

\* What cacheGetChunked returns for every month bucket of a location.
BucketReads(c, location, units) ==
  [m \in AllMonths |-> CacheGetChunked(c, MonthBucketKey(location, units, m))]

Init ==
  /\ cache = <<>>
  /\ last = [op |-> "init"]
  /\ written = Unwritten
  /\ evictions = 0
  /\ queries = 0
  /\ tz \in TimeZones
  /\ up \in Shapes
  /\ timing = <<>>
  /\ procs = <<>>

\* The record of a resolution: r is what fetchVCSingle_ did, cached and reads
\* what the range lookup and the bucket reads gave in the cache c it started
\* from, json what upstream holds for the range, prev the record before.
ResolutionRecord(c, prev, params, startDate, endDate, zone, resp, r, cached, reads, json) ==
  LET populated == r.trace = MissTrace
      repeat == /\ prev.op = "query" /\ prev.params = params
                /\ prev.trace = MissTrace /\ Len(prev.fetched) > 0
  IN [op |-> "query", params |-> params, startDate |-> startDate,
      endDate |-> endDate,
      resp |-> IF r.calls > 0 THEN resp ELSE NoResponse,
      st |-> r.st, rows |-> r.rows, calls |-> r.calls, trace |-> r.trace,
      wrote |-> r.cache # c,
      cachedSt |-> cached.st, cachedRows |-> cached.rows,
      absent |-> {m \in TouchedMonths(startDate, endDate) : ~MonthFound(reads[m])},
      inRange |-> {d \in UNION {SeqToSet(reads[m].v.days) : m \in AllMonths} :
                     InRange(d, startDate, endDate)},
      fetched |-> IF populated THEN json.days ELSE <<>>,
      grouped |-> [m \in AllMonths |->
                     IF populated THEN MonthlyData(json, m, zone).days ELSE <<>>],
      repeat |-> repeat,
      prevRows |-> IF repeat THEN prev.rows ELSE <<>>]

\* What one resolution of a single-location query by fetchVCSingle_ leaves:
\* the cache, and the record of what the call found before it ran and of
\* what it did.  resp is the response upstream gives if it is asked.
Resolution(r, c, prev, location, units, dataType, startDate, endDate, zone, resp, shape) ==
  [cache |-> r.cache,
   last |-> ResolutionRecord(c, prev, <<location, units, dataType, startDate, endDate>>,
              startDate, endDate, zone, resp, r,
              GetCachedDataForRange(c, location, units, startDate, endDate, zone),
              BucketReads(c, location, units),
              UpstreamJson(location, startDate, endDate, shape))]

\* A single-location query arrives and fetchVCSingle_ resolves it.
Query(location, units, dataType, startDate, endDate, resp) ==
  /\ queries < MaxQueries
  /\ queries' = queries + 1
  /\ \E out \in {Resolution(FetchVCSingle(cache, location, units, dataType,
                                           startDate, endDate, tz, resp, up),
                             cache, last, location, units, dataType,
                             startDate, endDate, tz, resp, up)} :
       cache' = out.cache /\ last' = out.last
  /\ written' = Unwritten
  /\ UNCHANGED <<evictions, tz, up, procs, timing>>

Next ==
  \/ \E location \in Locations, units \in UnitsSet, dataType \in DataTypes,
        startDate \in QueryDates, endDate \in QueryDates, resp \in Responses :
       /\ startDate <= endDate
       /\ Query(location, units, dataType, startDate, endDate, resp)
  \/ \E k \in DOMAIN cache : Evict(k)

Spec == Init /\ [][Next]_vars

\* ------------------------------------------ concurrent calls on one key
RECURSIVE ChunkSteps(_, _, _, _)

\* The cache.put calls of the while loop of cachePutChunked, in order.
ChunkSteps(key, jsonString, start, chunkIndex) ==
  IF start < Len(jsonString)
  THEN LET end == Min(start + CHUNK_SIZE, Len(jsonString))
       IN <<[key |-> ChunkKey(key, chunkIndex),
             text |-> SubSeq(jsonString, start + 1, end)]>>
          \o ChunkSteps(key, jsonString, end, chunkIndex + 1)
  ELSE <<>>

StepKeys(steps) == [i \in 1..Len(steps) |-> steps[i].key]

\* The chunk puts followed by the put of the metadata record.
WithMetaStep(chunkSteps, key, totalSize) ==
  Append(chunkSteps, [key |-> MetaKey(key),
                      text |-> StringifyMeta(StepKeys(chunkSteps), totalSize)])

\* Every cache.put of cachePutChunked from the serialized text on, in the
\* order the call makes them.
TextSteps(key, jsonString) ==
  IF Len(jsonString) <= MAX_CACHE_SIZE
  THEN <<[key |-> key, text |-> jsonString]>>
  ELSE WithMetaStep(ChunkSteps(key, jsonString, 0, 0), key, Len(jsonString))

PutSteps(key, data) == TextSteps(key, Stringify(data))

RECURSIVE ApplySteps(_, _)

\* The store after the puts of steps, first to last.
ApplySteps(c, steps) ==
  IF steps = <<>> THEN c
  ELSE ApplySteps(StorePut(c, Head(steps).key, Head(steps).text), Tail(steps))

\* Two invocations that look the key up, fetch on a miss and populate, and
\* one reader running cacheGetChunked, every cache.get and cache.put of
\* theirs being one step.
Writers == {1, 2}

IdleWriter ==
  [pc |-> "lookup", missed |-> FALSE, calls |-> 0, val |-> NoValue, steps |-> <<>>]

IdleReader ==
  [pc |-> "direct", chunks |-> <<>>, i |-> 0, allChunks |-> <<>>, missing |-> 0,
   st |-> "none", ret |-> NoValue]

InitConc ==
  /\ cache = <<>>
  /\ last = [op |-> "init"]
  /\ written = Unwritten
  /\ evictions = 0
  /\ queries = 0
  /\ tz = 0
  /\ up = [hours |-> TRUE, addr |-> "both"]
  /\ timing = <<>>
  /\ procs = [w |-> [i \in Writers |-> IdleWriter], r |-> IdleReader, fin |-> <<>>]

\* The reader returns: st and ret are what cacheGetChunked gives its caller.
Returned(r, res) == [r EXCEPT !.pc = "done", !.st = res.st, !.ret = res.v]

\* Invocation i looks the key up; anything but a value is a miss.
Lookup(i) ==
  /\ procs.w[i].pc = "lookup"
  /\ \E r \in {CacheGetChunked(cache, ScratchKey)} :
       procs' = [procs EXCEPT !.w[i].pc = IF r.st = "value" THEN "done" ELSE "fetch",
                              !.w[i].missed = r.st # "value"]
  /\ UNCHANGED <<cache, last, written, evictions, queries, tz, up, timing>>

\* Invocation i asks upstream, which answers v, and enters cachePutChunked.
Fetch(i, v) ==
  /\ procs.w[i].pc = "fetch"
  /\ procs' = [procs EXCEPT !.w[i].pc = "put", !.w[i].calls = @ + 1,
                            !.w[i].val = v, !.w[i].steps = PutSteps(ScratchKey, v)]
  /\ UNCHANGED <<cache, last, written, evictions, queries, tz, up, timing>>

\* Invocation i makes its next cache.put; after the last one its write is
\* complete.
PutStep(i) ==
  /\ procs.w[i].pc = "put"
  /\ cache' = StorePut(cache, Head(procs.w[i].steps).key, Head(procs.w[i].steps).text)
  /\ procs' = IF Len(procs.w[i].steps) = 1
              THEN [procs EXCEPT !.w[i].pc = "done", !.w[i].steps = <<>>,
                                 !.fin = Append(@, i)]
              ELSE [procs EXCEPT !.w[i].steps = Tail(@)]
  /\ UNCHANGED <<last, written, evictions, queries, tz, up, timing>>

\* The reader's cache.get(key).
ReadDirect ==
  /\ procs.r.pc = "direct"
  /\ procs' = [procs EXCEPT !.r =
                 IF StoreGet(cache, ScratchKey) # <<>>
                 THEN Returned(@, Parsed(JsonParse(StoreGet(cache, ScratchKey))))
                 ELSE [@ EXCEPT !.pc = "meta"]]
  /\ UNCHANGED <<cache, last, written, evictions, queries, tz, up, timing>>

\* The reader with the metadata text it got.
AfterMeta(r, metadataStr, metadata) ==
  IF metadataStr = <<>> THEN Returned(r, [st |-> "null", v |-> NoValue])
  ELSE IF ~metadata.ok \/ metadata.chunks = <<>>
       THEN Returned(r, [st |-> "error", v |-> NoValue])
  ELSE [r EXCEPT !.pc = "chunks", !.chunks = metadata.chunks]

\* The reader's cache.get(key + '_meta').
ReadMeta ==
  /\ procs.r.pc = "meta"
  /\ procs' = [procs EXCEPT !.r =
                 AfterMeta(@, StoreGet(cache, MetaKey(ScratchKey)),
                           ParseMeta(StoreGet(cache, MetaKey(ScratchKey))))]
  /\ UNCHANGED <<cache, last, written, evictions, queries, tz, up, timing>>

\* The reader once the loop over the chunks is through.
AfterChunks(r) ==
  IF r.i < Len(r.chunks) THEN r
  ELSE IF r.missing > 0 THEN Returned(r, [st |-> "null", v |-> NoValue])
  ELSE Returned(r, Parsed(JsonParse(r.allChunks)))

\* The reader with the chunk text it got: pushed to allChunks (kept joined)
\* or counted as missing.
AfterChunk(r, chunkData) ==
  AfterChunks(IF chunkData # <<>>
              THEN [r EXCEPT !.i = @ + 1, !.allChunks = @ \o chunkData]
              ELSE [r EXCEPT !.i = @ + 1, !.missing = @ + 1])

\* The reader's cache.get of the next chunk the metadata lists.
ReadChunk ==
  /\ procs.r.pc = "chunks"
  /\ procs' = [procs EXCEPT !.r =
                 AfterChunk(@, StoreGet(cache, procs.r.chunks[procs.r.i + 1]))]
  /\ UNCHANGED <<cache, last, written, evictions, queries, tz, up, timing>>

NextConc ==
  \/ \E i \in Writers : Lookup(i)
  \/ \E i \in Writers, v \in TestValues : Fetch(i, v)
  \/ \E i \in Writers : PutStep(i)
  \/ ReadDirect
  \/ ReadMeta
  \/ ReadChunk

SpecConc == InitConc /\ [][NextConc]_vars

\* --------------------------------------------------- store failures
\* The number of cache.put calls that succeed before the script cache starts
\* to throw; Unlimited when it never does.
Unlimited == 4 * MAX_CACHE_SIZE

\* The puts of steps made while the store works: the cache afterwards,
\* whether all were made, and the puts left before the store fails.
PutWithin(c, steps, budget) ==
  [cache |-> ApplySteps(c, SubSeq(steps, 1, Min(budget, Len(steps)))),
   ok |-> Len(steps) <= budget,
   budget |-> IF budget = Unlimited THEN Unlimited
              ELSE IF Len(steps) <= budget THEN budget - Len(steps) ELSE 0]

\* cachePutChunked(key, data) on a store that fails after budget puts: ok =
\* FALSE when a cache.put throws, which ends the call where it stands.
CachePutWithin(c, key, data, budget) == PutWithin(c, PutSteps(key, data), budget)

RECURSIVE MonthSteps(_, _, _, _, _)

\* The cache.put calls of cacheDataByMonthChunks_, month after month.
MonthSteps(location, units, json, months, zone) ==
  IF months = <<>> THEN <<>>
  ELSE PutSteps(MonthBucketKey(location, units, Head(months)),
                MonthlyData(json, Head(months), zone))
       \o MonthSteps(location, units, json, Tail(months), zone)

\* fetchVCSingle_ on a miss whose fetch succeeded, on a store that fails
\* after budget puts: w is the population of the month buckets; the catch
\* around cacheDataByMonthChunks_ drops its exception.
SinglePopulated(r, w, months, cachedSt) ==
  [cache |-> w.cache, st |-> r.st, err |-> "none", items |-> r.rows,
   calls |-> r.calls, reads |-> Len(months), lookup |-> "miss",
   unreadable |-> cachedSt = "error", putFailed |-> ~w.ok, budget |-> w.budget]

\* fetchVCSingle_ on a store that fails after budget puts: r is what it does
\* on a store that works, cachedSt what its range lookup gave.
SingleWithin(r, c, location, units, json, zone, budget, months, cachedSt) ==
  IF r.trace = MissTrace
  THEN SinglePopulated(r, PutWithin(c, MonthSteps(location, units, json,
                                                   MonthKeysOf(json.days, zone, {}),
                                                   zone), budget),
                       months, cachedSt)
  ELSE [cache |-> r.cache, st |-> r.st,
        err |-> IF r.st = "error" THEN "upstream" ELSE "none",
        items |-> r.rows, calls |-> r.calls, reads |-> Len(months),
        lookup |-> IF r.trace = HitTrace THEN "hit" ELSE "miss",
        unreadable |-> cachedSt = "error", putFailed |-> FALSE, budget |-> budget]

FetchVCSingleWithin(c, location, units, dataType, startDate, endDate, zone, resp, shape, budget) ==
  SingleWithin(FetchVCSingle(c, location, units, dataType, startDate, endDate,
                             zone, resp, shape),
               c, location, units, UpstreamJson(location, startDate, endDate, shape),
               zone, budget, GetMonthsInRange(startDate, endDate, zone),
               GetCachedDataForRange(c, location, units, startDate, endDate, zone).st)

\* ------------------------------------------------------------ the batch path
Store(id, address) == [store_id |-> id, address |-> address]

\* buildLocationString_(s) of a store that has an address.
BuildLocationString(s) == IF Truthy(s.address) THEN s.address ELSE ""

RECURSIVE JoinLocs(_)

\* storesChunk.map(buildLocationString_).join('|')
JoinLocs(storesChunk) ==
  IF storesChunk = <<>> THEN ""
  ELSE IF Len(storesChunk) = 1 THEN BuildLocationString(storesChunk[1])
  ELSE BuildLocationString(Head(storesChunk)) \o "|" \o JoinLocs(Tail(storesChunk))

\* A date as the string "YYYY-MM-DD".
DateStr(d) ==
  MonthStr(d \div 100) \o "-" \o (IF d % 100 < 10 THEN "0" ELSE "") \o ToString(d % 100)

\* 'batch:' + dateRangeHash + ':' + locationsHash + ':' + cfg.units
BatchCacheKey(storesChunk, startDate, endDate, units) ==
  "batch:" \o ComputeDigest(DateStr(startDate) \o "|" \o DateStr(endDate))
    \o ":" \o ComputeDigest(JoinLocs(storesChunk)) \o ":" \o units

\* The body of a successful timelinemulti response.
UpstreamBatch(storesChunk, startDate, endDate, shape) ==
  Batch([i \in 1..Len(storesChunk) |->
           UpstreamJson(BuildLocationString(storesChunk[i]), startDate, endDate, shape)])

Item(storeId, locKey, r) == [store_id |-> storeId, location_key |-> locKey, rec |-> r]

RECURSIVE DayItems(_, _, _, _)

\* The locObj.days.forEach loop of fetchVCBatch_.
DayItems(days, dataType, storeId, locKey) ==
  IF days = <<>> THEN <<>>
  ELSE (IF dataType = "hourly" /\ Head(days).hasHours
        THEN [i \in 1..Len(Head(days).hours) |-> Item(storeId, locKey, Head(days).hours[i])]
        ELSE <<Item(storeId, locKey, Head(days))>>)
       \o DayItems(Tail(days), dataType, storeId, locKey)

\* locObj.resolvedAddress || locObj.address || store.address || ''
LocKey(locObj, store) ==
  IF Truthy(locObj.resolvedAddress) THEN locObj.resolvedAddress
  ELSE Or3(locObj.address, store.address, "")

RECURSIVE LocationItems(_, _, _, _)

\* The json.locations.forEach loop of fetchVCBatch_, from location i on.
LocationItems(locations, storesChunk, dataType, i) ==
  IF i > Len(locations) THEN <<>>
  ELSE DayItems(locations[i].days, dataType, storesChunk[i].store_id,
                LocKey(locations[i], storesChunk[i]))
       \o LocationItems(locations, storesChunk, dataType, i + 1)

\* The rows fetchVCBatch_ maps a payload to.
BatchItems(json, storesChunk, dataType) ==
  IF "locations" \notin DOMAIN json THEN <<>>
  ELSE LocationItems(json.locations, storesChunk, dataType, 1)

\* The mapping throws a TypeError: a location beyond the last store of the
\* chunk has days, or no address of its own (store is undefined there).
ItemsThrow(json, storesChunk) ==
  /\ "locations" \in DOMAIN json
  /\ \E i \in 1..Len(json.locations) :
       /\ i > Len(storesChunk)
       /\ \/ json.locations[i].days # <<>>
          \/ ~Truthy(json.locations[i].resolvedAddress)
               /\ ~Truthy(json.locations[i].address)

\* fetchVCBatch_ after a successful fetch: w is the cachePutChunked of the
\* payload json, whose exception is not caught.
BatchPopulated(w, json, storesChunk, dataType) ==
  IF w.ok
  THEN [cache |-> w.cache, st |-> "ok", err |-> "none",
        items |-> BatchItems(json, storesChunk, dataType), calls |-> 1, reads |-> 1,
        lookup |-> "miss", unreadable |-> FALSE, putFailed |-> FALSE,
        budget |-> w.budget]
  ELSE [cache |-> w.cache, st |-> "error", err |-> "cache write", items |-> <<>>,
        calls |-> 1, reads |-> 1, lookup |-> "miss", unreadable |-> FALSE,
        putFailed |-> TRUE, budget |-> w.budget]

\* fetchVCBatch_ on a miss.
BatchFetch(c, cacheKey, storesChunk, dataType, resp, json, budget) ==
  IF FetchFails(resp)
  THEN [cache |-> c, st |-> "error", err |-> "upstream", items |-> <<>>, calls |-> 1,
        reads |-> 1, lookup |-> "miss", unreadable |-> FALSE, putFailed |-> FALSE,
        budget |-> budget]
  ELSE BatchPopulated(CachePutWithin(c, cacheKey, json, budget), json, storesChunk,
                      dataType)

\* fetchVCBatch_ from what cacheGetChunked(cacheKey) gave, cached, on; an
\* exception of cacheGetChunked is not caught.
BatchAfterLookup(cached, c, cacheKey, storesChunk, dataType, resp, json, budget) ==
  IF cached.st = "error"
  THEN [cache |-> c, st |-> "error", err |-> "cache read", items |-> <<>>, calls |-> 0,
        reads |-> 1, lookup |-> "unreadable", unreadable |-> TRUE,
        putFailed |-> FALSE, budget |-> budget]
  ELSE IF cached.st = "value" /\ ItemsThrow(cached.v, storesChunk)
  THEN [cache |-> c, st |-> "error", err |-> "cache payload", items |-> <<>>,
        calls |-> 0, reads |-> 1, lookup |-> "hit", unreadable |-> TRUE,
        putFailed |-> FALSE, budget |-> budget]
  ELSE IF cached.st = "value"
  THEN [cache |-> c, st |-> "ok", err |-> "none",
        items |-> BatchItems(cached.v, storesChunk, dataType), calls |-> 0,
        reads |-> 1, lookup |-> "hit", unreadable |-> FALSE, putFailed |-> FALSE,
        budget |-> budget]
  ELSE BatchFetch(c, cacheKey, storesChunk, dataType, resp, json, budget)

\* Mutant of FetchVCBatch: the batch cache is not consulted.
FetchVCBatchNoLookup(c, storesChunk, units, dataType, startDate, endDate, resp, shape, budget) ==
  BatchFetch(c, BatchCacheKey(storesChunk, startDate, endDate, units), storesChunk,
             dataType, resp, UpstreamBatch(storesChunk, startDate, endDate, shape),
             budget)

\* fetchVCBatch_(storesChunk, range, cfg, key): the cache afterwards, the
\* rows returned (st = "ok") or the exception thrown and its cause err, the
\* number of UrlFetchApp.fetch and of cacheGetChunked calls, and what the
\* lookup found.
FetchVCBatch(c, storesChunk, units, dataType, startDate, endDate, resp, shape, budget) ==
  BatchAfterLookup(CacheGetChunked(c, BatchCacheKey(storesChunk, startDate, endDate, units)),
                   c, BatchCacheKey(storesChunk, startDate, endDate, units),
                   storesChunk, dataType, resp,
                   UpstreamBatch(storesChunk, startDate, endDate, shape), budget)

\* ------------------------------------------------------------------ getData
BatchSize == 25

\* Mutant of GroupLocationsForBatch: only whole batches are returned.
GroupLocationsWholeBatches(copy) ==
  [i \in 1..(Len(copy) \div BatchSize) |->
     SubSeq(copy, (i - 1) * BatchSize + 1, i * BatchSize)]

RECURSIVE GroupLocationsForBatch(_)

\* groupLocationsForBatch_(stores): copy.splice(0, 25) while copy is not
\* empty.
GroupLocationsForBatch(copy) ==
  IF copy = <<>> THEN <<>>
  ELSE <<SubSeq(copy, 1, Min(BatchSize, Len(copy)))>>
       \o GroupLocationsForBatch(SubSeq(copy, Min(BatchSize, Len(copy)) + 1, Len(copy)))

\* The outcome of a fetch block that has not fetched yet.
NoFetch(c, budget) ==
  [cache |-> c, st |-> "ok", err |-> "none", items |-> <<>>, calls |-> 0,
   reads |-> 0, lookup |-> "none", unreadable |-> FALSE, putFailed |-> FALSE,
   budget |-> budget]

\* results.push.apply(results, batchResults) after the batch outcome b.
Pushed(acc, b) ==
  [b EXCEPT !.items = acc.items \o b.items, !.calls = acc.calls + b.calls,
            !.reads = acc.reads + b.reads]

RECURSIVE FetchBatches(_, _, _, _, _, _, _, _)

\* batched.forEach(fetchVCBatch_); an exception ends the loop.
FetchBatches(acc, batched, units, dataType, startDate, endDate, resp, shape) ==
  IF batched = <<>> \/ acc.st = "error" THEN acc
  ELSE FetchBatches(Pushed(acc, FetchVCBatch(acc.cache, Head(batched), units, dataType,
                                             startDate, endDate, resp, shape,
                                             acc.budget)),
                    Tail(batched), units, dataType, startDate, endDate, resp, shape)

\* The fetch block of getData, the same in its three branches: the batches
\* of the sheet's stores, or the single location.
Fetched(c, request, env) ==
  IF request.source_mode = "sheet"
  THEN FetchBatches(NoFetch(c, env.budget), GroupLocationsForBatch(request.stores),
                    request.units, request.data_type, request.startDate,
                    request.endDate, env.resp, env.shape)
  ELSE FetchVCSingleWithin(c, IF Truthy(request.location) THEN request.location
                              ELSE "Berlin, DE",
                           request.units, request.data_type, request.startDate,
                           request.endDate, env.zone, env.resp, env.shape, env.budget)

\* The value toRow_ pushes for a field.  The records of the model carry the
\* temperature and no other numeric field: num(undefined) is null.
FieldValue(id, item) ==
  CASE id = "location_key" ->
         Str(IF Truthy(item.location_key) THEN item.location_key ELSE "")
    [] id = "store_id" -> Str(IF Truthy(item.store_id) THEN item.store_id ELSE "")
    [] id = "date" -> Str(ToString(item.rec.datetime))
    [] id = "temp" -> Num(item.rec.temp)
    [] id \in {"feelslike", "humidity", "precip", "snow", "windspeed"} -> Null
    [] OTHER -> Str("")

\* toRow_(fields, dataType)(item)
ToRow(fields, item) == [values |-> [i \in 1..Len(fields) |-> FieldValue(fields[i], item)]]

\* results.map(toRow_(fields, cfg.data_type))
Rows(fields, items) == [i \in 1..Len(items) |-> ToRow(fields, items[i])]

\* 'master:' + MD5(location|start|end|data_type|units)
MasterCacheKey(location, startDate, endDate, dataType, units) ==
  "master:" \o ComputeDigest(location \o "|" \o DateStr(startDate) \o "|"
                             \o DateStr(endDate) \o "|" \o dataType \o "|" \o units)

\* What getData returns or throws after the fetch block's outcome f.
Outcome(f, rows) ==
  [cache |-> f.cache, st |-> f.st, err |-> f.err, rows |-> rows, calls |-> f.calls,
   reads |-> f.reads, lookup |-> f.lookup, unreadable |-> f.unreadable,
   putFailed |-> f.putFailed]

\* The branch without master dataset.
DirectData(f, fields) ==
  Outcome(f, IF f.st = "ok" THEN Rows(fields, f.items) ELSE <<>>)

\* The master branch after w, its cachePutChunked(masterCacheKey, rows),
\* whose exception is not caught.
MasterStored(f, rows, w) ==
  IF w.ok THEN [Outcome(f, rows) EXCEPT !.cache = w.cache]
  ELSE [Outcome(f, <<>>) EXCEPT !.cache = w.cache, !.st = "error",
                                !.err = "cache write", !.putFailed = TRUE]

\* The master branch after its fetch block.
MasterData(f, request) ==
  IF f.st = "error" THEN Outcome(f, <<>>)
  ELSE MasterStored(f, Rows(request.fields, f.items),
                    CachePutWithin(f.cache,
                                   MasterCacheKey(request.location, request.startDate,
                                                  request.endDate, request.data_type,
                                                  request.units),
                                   Master(Rows(request.fields, f.items)), f.budget))

\* The date the widget filter reads in row.values[1]; -1 when the value is
\* no date.
WidgetDate(v) ==
  IF v.t = "num" THEN v.n
  ELSE IF v.t = "str" /\ IsNumTok(v.s) THEN NumOf(v.s)
  ELSE -1

\* The filter of the widget branch on the second value of a row.
WidgetKeeps(row, startDate, endDate) ==
  /\ Len(row.values) >= 2
  /\ row.values[2] \notin {Null, Str(""), Num(0)}
  /\ WidgetDate(row.values[2]) >= startDate
  /\ WidgetDate(row.values[2]) <= endDate

FilteredData(masterData, startDate, endDate) ==
  LET Keep(row) == WidgetKeeps(row, startDate, endDate)
  IN IF "rows" \in DOMAIN masterData THEN SelectSeq(masterData.rows, Keep) ELSE <<>>

\* The fallback of the widget branch, after the read of the master key.
Fallback(d) == [d EXCEPT !.reads = @ + 1]

\* The widget branch from what cacheGetChunked(masterCacheKey) gave on; an
\* exception of cacheGetChunked is not caught.
WidgetData(masterData, c, request, env) ==
  IF masterData.st = "error"
  THEN [cache |-> c, st |-> "error", err |-> "cache read", rows |-> <<>>, calls |-> 0,
        reads |-> 1, lookup |-> "unreadable", unreadable |-> TRUE, putFailed |-> FALSE]
  ELSE IF masterData.st = "value"
  THEN [cache |-> c, st |-> "ok", err |-> "none",
        rows |-> FilteredData(masterData.v, request.startDate, request.endDate),
        calls |-> 0, reads |-> 1, lookup |-> "hit", unreadable |-> FALSE,
        putFailed |-> FALSE]
  ELSE Fallback(DirectData(Fetched(c, request, env), request.fields))

\* getData of a request that has an API key.
KeyedData(c, request, env) ==
  IF request.isMasterDataset THEN MasterData(Fetched(c, request, env), request)
  ELSE IF Truthy(request.masterCacheKey)
  THEN WidgetData(CacheGetChunked(c, request.masterCacheKey), c, request, env)
  ELSE DirectData(Fetched(c, request, env), request.fields)

\* The user error of a request without API key, thrown at outcome d.
ConfigError(d) ==
  [d EXCEPT !.st = "error", !.err = "config", !.rows = <<>>]

\* Mutant of GetData: the API key is tested after the data was retrieved.
GetDataKeyTestedLast(c, request, env) ==
  IF ~Truthy(request.api_key) THEN ConfigError(KeyedData(c, request, env))
  ELSE KeyedData(c, request, env)

\* getData(request) in the environment env (the upstream response, its
\* shape, the script time zone, the puts before the store fails): the cache
\* afterwards, the rows returned (st = "ok") or the exception thrown and
\* its cause, and what the call did.
GetData(c, request, env) ==
  IF ~Truthy(request.api_key) THEN ConfigError(DirectData(NoFetch(c, env.budget), <<>>))
  ELSE KeyedData(c, request, env)

\* ------------------------------------------------- batch specification
\* The stores loadStoresFromSheet_ returns.
SheetStores == <<Store("s1", "Berlin, DE"), Store("s2", "Berlin, Germany")>>

\* The date ranges of the requests: the last day of a month, and that day
\* with the day after it.
DataRanges ==
  {<<Months[1] * 100 + MonthLen, Months[1] * 100 + MonthLen>>,
   <<Months[1] * 100 + MonthLen, Months[2] * 100 + 1>>}

\* The responses of Responses and a redirect status with a JSON body.
DataResponses == Responses \cup {[code |-> 301, json |-> TRUE]}

Budgets == {0, 1, Unlimited}

\* The upstream response and the store's put budget of a call; the budget
\* only matters when the response leads to a put.
Envs ==
  {e \in [resp : DataResponses, budget : Budgets] :
     FetchFails(e.resp) => e.budget = Unlimited}

\* The shapes a concurrent invocation can get from upstream.
OtherShapes == {[hours |-> TRUE, addr |-> "both"], [hours |-> TRUE, addr |-> "none"]}

\* The record of a fetchVCBatch_ call that started in cache c and ended as
\* out: found is what cacheGetChunked gave for its key in c, fromCache the
\* rows of that payload, fresh the rows of the payload upstream holds,
\* stored whether the cache is c with that payload put under the key.
\* The four components the spec names for a batch request.
Components(storesChunk, startDate, endDate, units, dataType) ==
  [known |-> TRUE, locations |-> JoinLocs(storesChunk), startDate |-> startDate,
   endDate |-> endDate, units |-> units, granularity |-> dataType]

NoWriter == [known |-> FALSE]

\* The request that wrote the entry now under cacheKey, as far as the record
\* prev of the call before tells.
WriterOf(prev, cacheKey) ==
  IF prev.op = "batch" /\ prev.key = cacheKey THEN prev.by ELSE NoWriter

BatchRecord(c, prev, cacheKey, range, dataType, e, shape, out) ==
  [op |-> "batch", startDate |-> range[1], endDate |-> range[2],
   dataType |-> dataType, key |-> cacheKey,
   readOf |-> WriterOf(prev, cacheKey),
   by |-> IF out.calls > 0 /\ out.st = "ok"
          THEN Components(SheetStores, range[1], range[2], "metric", dataType)
          ELSE WriterOf(prev, cacheKey),
   resp |-> IF out.calls > 0 THEN e.resp ELSE NoResponse,
   st |-> out.st, err |-> out.err, rows |-> out.items, calls |-> out.calls,
   reads |-> out.reads, lookup |-> out.lookup, unreadable |-> out.unreadable,
   putFailed |-> out.putFailed, wrote |-> out.cache # c,
   found |-> CacheGetChunked(c, cacheKey).st,
   torn |-> Torn(c, cacheKey),
   fromCache |-> IF CacheGetChunked(c, cacheKey).st = "value"
                    /\ ~ItemsThrow(CacheGetChunked(c, cacheKey).v, SheetStores)
                 THEN BatchItems(CacheGetChunked(c, cacheKey).v, SheetStores, dataType)
                 ELSE <<>>,
   fresh |-> IF out.calls > 0 /\ ~FetchFails(e.resp)
             THEN BatchItems(UpstreamBatch(SheetStores, range[1], range[2], shape),
                             SheetStores, dataType)
             ELSE <<>>,
   stored |-> out.cache = CachePutChunked(c, cacheKey,
                                           UpstreamBatch(SheetStores, range[1], range[2],
                                                         shape)).cache]

InitBatch ==
  /\ cache = <<>>
  /\ last = [op |-> "init"]
  /\ written = Unwritten
  /\ evictions = 0
  /\ queries = 0
  /\ tz = 0
  /\ up = [hours |-> TRUE, addr |-> "both"]
  /\ timing = <<>>
  /\ procs = [pc |-> "idle", steps |-> <<>>]

\* getData calls fetchVCBatch_ for the sheet's stores.
BatchCall(range, dataType, e) ==
  /\ queries < MaxQueries
  /\ queries' = queries + 1
  /\ \E out \in {FetchVCBatch(cache, SheetStores, "metric", dataType, range[1],
                              range[2], e.resp, up, e.budget)} :
       /\ cache' = out.cache
       /\ last' = BatchRecord(cache, last,
                              BatchCacheKey(SheetStores, range[1], range[2], "metric"),
                              range, dataType, e, up, out)
  /\ UNCHANGED <<written, evictions, tz, up, procs, timing>>

\* A concurrent invocation of fetchVCBatch_ for the same stores misses and
\* gets a payload of the given shape from upstream; its cachePutChunked
\* then runs put by put.
OtherFetch(range, shape) ==
  /\ procs.pc = "idle"
  /\ CacheGetChunked(cache, BatchCacheKey(SheetStores, range[1], range[2], "metric")).st
       = "null"
  /\ procs' = [pc |-> "put",
               steps |-> PutSteps(BatchCacheKey(SheetStores, range[1], range[2], "metric"),
                                  UpstreamBatch(SheetStores, range[1], range[2], shape))]
  /\ UNCHANGED <<cache, last, written, evictions, queries, tz, up, timing>>

\* The next cache.put of the concurrent invocation.
OtherPut ==
  /\ procs.pc = "put"
  /\ cache' = StorePut(cache, Head(procs.steps).key, Head(procs.steps).text)
  /\ procs' = IF Len(procs.steps) = 1 THEN [pc |-> "done", steps |-> <<>>]
              ELSE [procs EXCEPT !.steps = Tail(@)]
  /\ UNCHANGED <<last, written, evictions, queries, tz, up, timing>>

NextBatch ==
  \/ \E range \in DataRanges, dataType \in DataTypes, e \in Envs :
       BatchCall(range, dataType, e)
  \/ \E range \in DataRanges, shape \in OtherShapes : OtherFetch(range, shape)
  \/ OtherPut
  \/ \E k \in DOMAIN cache : Evict(k)

SpecBatch == InitBatch /\ [][NextBatch]_vars

\* ---------------------------------------------------- getData specification
ApiKeys == {"", "KEY"}

Modes == {"single", "sheet"}

\* The three branches of getData: a master dataset request, a widget request
\* carrying a master cache key, a request with neither.
Kinds == {"master", "widget", "direct"}

WideRange == <<Months[1] * 100 + MonthLen, Months[2] * 100 + 1>>

FieldIds == <<"location_key", "date", "temp">>

\* The request of a report: a widget request carries the key of the master
\* dataset of the wide range.
Request(apiKey, mode, kind, range, dataType) ==
  [api_key |-> apiKey, source_mode |-> mode, isMasterDataset |-> kind = "master",
   masterCacheKey |-> IF kind = "widget"
                      THEN MasterCacheKey("Berlin, DE", WideRange[1], WideRange[2],
                                          dataType, "metric")
                      ELSE "",
   location |-> "Berlin, DE", units |-> "metric", data_type |-> dataType,
   startDate |-> range[1], endDate |-> range[2], fields |-> FieldIds,
   stores |-> SheetStores]

\* What a widget request meets under its master key: the outcome of
\* cacheGetChunked(masterCacheKey) and the rows of the value it gives.
MasterSeen(md) ==
  [st |-> md.st,
   rows |-> IF md.st = "value" /\ "rows" \in DOMAIN md.v THEN md.v.rows ELSE <<>>]

\* The fields of the master dataset a widget request reads, when the call
\* before it was the master request that stored it; <<>> otherwise.
MasterFields(prev, request) ==
  IF /\ prev.op = "getData"
     /\ prev.kind = "master"
     /\ prev.st = "ok"
     /\ MasterCacheKey("Berlin, DE", prev.startDate, prev.endDate, prev.dataType,
                       "metric") = request.masterCacheKey
  THEN prev.fields
  ELSE <<>>

\* The record of a getData call that started in cache c and ended as out;
\* kind is the branch the request asks for, stocked whether c held any entry,
\* prev the record of the call before it.
DataRecord(c, prev, request, kind, env, out) ==
  [op |-> "getData", keyed |-> Truthy(request.api_key), mode |-> request.source_mode,
   kind |-> kind, startDate |-> request.startDate, endDate |-> request.endDate,
   dataType |-> request.data_type,
   resp |-> IF out.calls > 0 THEN env.resp ELSE NoResponse,
   st |-> out.st, err |-> out.err, rows |-> out.rows, calls |-> out.calls,
   reads |-> out.reads, lookup |-> out.lookup, unreadable |-> out.unreadable,
   putFailed |-> out.putFailed, wrote |-> out.cache # c, stocked |-> c # <<>>,
   fields |-> request.fields,
   master |-> IF kind = "widget"
              THEN MasterSeen(CacheGetChunked(c, request.masterCacheKey))
              ELSE [st |-> "none", rows |-> <<>>],
   masterFields |-> IF kind = "widget" THEN MasterFields(prev, request) ELSE <<>>]

InitData ==
  /\ cache = <<>>
  /\ last = [op |-> "init"]
  /\ written = Unwritten
  /\ evictions = 0
  /\ queries = 0
  /\ tz = 0
  /\ up = [hours |-> TRUE, addr |-> "both"]
  /\ timing = <<>>
  /\ procs = <<>>

\* A report request arrives and getData answers it.
GetDataCall(apiKey, mode, kind, range, dataType, e) ==
  /\ queries < MaxQueries
  /\ queries' = queries + 1
  /\ \E env \in {[resp |-> e.resp, shape |-> up, zone |-> tz, budget |-> e.budget]} :
       \E out \in {GetData(cache, Request(apiKey, mode, kind, range, dataType), env)} :
         /\ cache' = out.cache
         /\ last' = DataRecord(cache, last, Request(apiKey, mode, kind, range, dataType),
                               kind, env, out)
  /\ UNCHANGED <<written, evictions, tz, up, procs, timing>>

\* The fields a chart other than the master's asks for.
ChartFields == {<<"location_key", "date">>, <<"date", "temp", "humidity">>}

\* A chart with its own fields sends a request of the given branch; the
\* master datasets of such charts cover the wide range and start with the date.
ChartCall(kind, range, dataType, fields, e) ==
  /\ queries < MaxQueries
  /\ queries' = queries + 1
  /\ \E env \in {[resp |-> e.resp, shape |-> up, zone |-> tz, budget |-> e.budget]},
        request \in {[Request("KEY", "single", kind, range, dataType)
                        EXCEPT !.fields = fields]} :
       \E out \in {GetData(cache, request, env)} :
         /\ cache' = out.cache
         /\ last' = DataRecord(cache, last, request, kind, env, out)
  /\ UNCHANGED <<written, evictions, tz, up, procs, timing>>

NextData ==
  \/ \E apiKey \in ApiKeys, mode \in Modes, kind \in Kinds, range \in DataRanges,
        dataType \in DataTypes, e \in Envs :
       GetDataCall(apiKey, mode, kind, range, dataType, e)
  \/ \E kind \in Kinds, range \in DataRanges, fields \in ChartFields,
        e \in {x \in Envs : ~FetchFails(x.resp) /\ x.budget = Unlimited} :
       /\ kind = "master" => (range = WideRange /\ fields[1] = "date")
       /\ ChartCall(kind, range, "daily", fields, e)

SpecData == InitData /\ [][NextData]_vars

\* ------------------------------------------------- claims on the codec
\* C1: a cachePutChunked on a key with no entries, directly followed by a
\* cacheGetChunked of that key, reads back the value written, on the direct
\* path and on the chunked path.
C1_RoundTripFresh ==
  (last.op = "get" /\ last.before.op = "put" /\ last.before.fresh)
    => (last.st = "value" /\ last.ret = last.before.val)

C1_Witness ==
  /\ last.op = "get" /\ last.before.op = "put" /\ last.before.fresh
  /\ last.before.chunks >= 2
  /\ last.st = "value" /\ last.ret = last.before.val

\* C2: after completed writes to a key, with no entry of the key dropped
\* since, a read returns the value of the most recent write.
C2_LastWriteWins ==
  (last.op = "get" /\ written.known)
    => (last.st = "value" /\ last.ret = written.val)

\* C3: a read of a key whose metadata record is present while a chunk it
\* lists is gone returns null.
C3_TornReadIsAbsent ==
  (last.op = "get" /\ last.torn) => last.st = "null"

\* C4: cacheRemoveChunked never raises, also on an empty key and twice in a
\* row, and a read directly after it returns null whatever the key held.
C4_RemoveIdempotent ==
  /\ last.op = "remove" => last.st = "ok"
  /\ (last.op = "get" /\ last.before.op = "remove") => last.st = "null"

C4_Witness ==
  /\ last.op = "get" /\ last.before.op = "remove"
  /\ last.before.again /\ last.before.had = "chunked"
  /\ last.st = "null"

\* ------------------------------------------- claims on the range cache
\* C5: month coverage is all-or-nothing: when the bucket of at least one
\* calendar month the range touches is absent, getCachedDataForRange_
\* returns null and never rows built from the months that are present.
C5_MonthCoverageAllOrNothing ==
  (last.op = "query" /\ last.absent # {}) => last.cachedSt = "null"

\* C6: range filter exactness: when the bucket of every touched month is
\* present, the range read returns exactly the cached records dated within
\* [start, end], each once, in ascending order of date.
C6_RangeFilterExact ==
  (last.op = "query" /\ last.absent = {}) =>
    /\ last.cachedSt = "rows"
    /\ {last.cachedRows[i].rec : i \in 1..Len(last.cachedRows)} = last.inRange
    /\ Len(last.cachedRows) = Cardinality(last.inRange)
    /\ \A i \in 1..(Len(last.cachedRows) - 1) :
         last.cachedRows[i].rec.datetime <= last.cachedRows[i + 1].rec.datetime

\* The records of a fetched series whose own date lies in calendar month m,
\* in input order.
OfCalendarMonth(days, m) ==
  LET InMonth(day) == MonthOfDate(day.datetime) = m
  IN SelectSeq(days, InMonth)

\* C7: month grouping on write: cacheDataByMonthChunks_ puts every fetched
\* record into the bucket of the calendar month of the record's own date, so
\* each month's bucket receives exactly that month's records in input order
\* and a month with no record receives none.
C7_MonthGroupingOnWrite ==
  (last.op = "query" /\ last.trace = MissTrace) =>
    \A m \in AllMonths : last.grouped[m] = OfCalendarMonth(last.fetched, m)

\* C8: repeat-query reuse: a resolution that directly follows a resolution
\* with the same parameters which missed, fetched records and populated the
\* cache makes no upstream call and returns the same rows, field for field.
C8_RepeatQueryReuse ==
  (last.op = "query" /\ last.repeat) =>
    (last.calls = 0 /\ last.st = "ok" /\ last.rows = last.prevRows)

\* C9: overlapping range reuse: a query all of whose touched months have a
\* bucket in the cache is resolved with no upstream fetch.
C9_OverlappingRangeReuse ==
  (last.op = "query" /\ last.absent = {}) => last.calls = 0

\* C10 as stated: every resolution is TRY_RANGE_CACHE, HIT, RETURN with no
\* upstream call and no cache write, or TRY_RANGE_CACHE, MISS,
\* FETCH_UPSTREAM, POPULATE_RANGE_CACHE, RETURN with exactly one upstream
\* call.
C10_EveryResolutionReturns ==
  last.op = "query" =>
    /\ last.trace \in {HitTrace, MissTrace}
    /\ last.trace = HitTrace => (last.calls = 0 /\ ~last.wrote)
    /\ last.trace = MissTrace => last.calls = 1

\* C10 as amended: the range cache is consulted first and the resolution is
\* a hit exactly when the lookup yields rows; a hit makes no upstream call
\* and no cache write and returns the rows looked up; a miss makes exactly
\* one upstream call, which is followed by the cache population and the
\* return when upstream answers with a status below 400 and a body that
\* parses, and by an error thrown to the caller with no cache write when
\* the status is 400 or more or the body does not parse.
C10_ResolutionStateMachine ==
  last.op = "query" =>
    /\ last.trace \in {HitTrace, MissTrace, AbortTrace}
    /\ last.trace = HitTrace <=> (last.cachedSt = "rows" /\ Len(last.cachedRows) > 0)
    /\ last.trace = HitTrace =>
         /\ last.calls = 0 /\ ~last.wrote
         /\ last.st = "ok" /\ last.rows = last.cachedRows
    /\ last.trace = MissTrace =>
         (last.calls = 1 /\ ~FetchFails(last.resp) /\ last.st = "ok")
    /\ last.trace = AbortTrace =>
         (last.calls = 1 /\ FetchFails(last.resp) /\ ~last.wrote /\ last.st = "error")

C10_Witness ==
  /\ last.op = "query" /\ last.trace = MissTrace
  /\ last.cachedSt = "null" /\ last.calls = 1 /\ last.wrote
\* C14: after completed writes to a key (no entry dropped in between) and a
\* cacheRemoveChunked of it, the store holds no direct entry, no metadata
\* record and no chunk of that key.
C14_RemoveDeletesEveryFragment ==
  (last.op = "remove" /\ evictions = 0) => last.left = {}

\* ------------------------------------- claims on concurrent invocations
\* C15: a cacheGetChunked that interleaves with cachePutChunked calls on the
\* same key returns null or a value one of these calls wrote, never a text
\* put together from chunks of different writes (nor does it throw).
C15_NoMixedRead ==
  procs.r.pc = "done" =>
    \/ procs.r.st = "null"
    \/ /\ procs.r.st = "value"
       /\ \E i \in Writers : procs.w[i].calls = 1 /\ procs.r.ret = procs.w[i].val

\* C16: two invocations that both missed both called upstream and both
\* wrote, and once both writes are complete the key reads as the value of
\* the invocation whose write finished last.
C16_SecondWriteWins ==
  (\A i \in Writers : procs.w[i].pc = "done" /\ procs.w[i].missed) =>
    /\ \A i \in Writers : procs.w[i].calls = 1
    /\ Len(procs.fin) = 2
    /\ CacheGetChunked(cache, ScratchKey) =
         [st |-> "value", v |-> procs.w[procs.fin[2]].val]

\* ------------------------------------------------ claims on the batch path
\* C11: a stored entry that cannot be reconstructed (a chunk is missing) or
\* deserialized (JSON.parse throws) is treated as a cache miss: upstream is
\* asked, and the failure of the read does not reach the caller.
C11_CorruptionIsAMiss ==
  (last.op = "batch" /\ (last.torn \/ last.found = "error")) =>
    (last.lookup = "miss" /\ last.calls = 1 /\ last.err # "cache read")

\* C12: when the store fails while the cache is populated after a successful
\* fetch, the failure is ignored and the call returns the fetched rows.
C12_PopulateFailureIgnored ==
  (last.op = "batch" /\ last.putFailed) =>
    (last.st = "ok" /\ last.rows = last.fresh)

\* C13: an upstream response with a status outside 200..299 or with a body
\* that is not JSON aborts the call with the upstream user error after one
\* upstream call, and no cache entry is written or modified.
C13_UpstreamFailureFatal ==
  (last.op = "batch" /\ last.calls >= 1
     /\ (last.resp.code \notin 200..299 \/ ~last.resp.json)) =>
    (last.st = "error" /\ last.err = "upstream" /\ last.calls = 1 /\ ~last.wrote)

\* C20, as claimed: a batch fetch whose key is present makes no upstream
\* call and uses the cached payload; one whose key is absent makes exactly
\* one upstream call and then writes the payload under that key.
C20_NoPartialHit ==
  last.op = "batch" =>
    /\ last.found = "value" =>
         (last.calls = 0 /\ ~last.wrote /\ last.rows = last.fromCache)
    /\ last.found = "null" => (last.calls = 1 /\ last.stored)

\* C20, amended: as above, but on a miss the payload is written only when
\* the response is no failure; a failed response aborts with the upstream
\* error and writes nothing, and a put that throws ends the call with that
\* exception.
C20_HitOrOneFetch ==
  last.op = "batch" =>
    /\ last.found = "value" =>
         (last.calls = 0 /\ ~last.wrote /\ last.rows = last.fromCache)
    /\ last.found = "null" =>
         /\ last.calls = 1
         /\ IF FetchFails(last.resp)
            THEN last.st = "error" /\ last.err = "upstream" /\ ~last.wrote
            ELSE IF last.putFailed
            THEN last.st = "error" /\ last.err = "cache write"
            ELSE last.st = "ok" /\ last.stored /\ last.rows = last.fresh

C20_Witness ==
  /\ last.op = "batch" /\ last.found = "value" /\ last.calls = 0
  /\ Len(last.rows) > 0 /\ last.rows = last.fromCache

\* --------------------------------------------------------- claims on getData
\* C17: a request without API key gets the configuration error, and getData
\* has then read no cache entry, written none and made no upstream call.
C17_NoKeyRejectedFirst ==
  (last.op = "getData" /\ ~last.keyed) =>
    /\ last.st = "error" /\ last.err = "config" /\ last.rows = <<>>
    /\ last.reads = 0 /\ last.calls = 0 /\ ~last.wrote

C17_Witness ==
  /\ last.op = "getData" /\ ~last.keyed /\ last.stocked
  /\ last.err = "config" /\ last.reads = 0

\* ------------------------------------------------------ clearing the cache
\* The number of months clearCacheForLocation visits.
ClearedMonths == 24

RECURSIVE MonthBack(_, _)

\* new Date(currentDate.getFullYear(), currentDate.getMonth() - i, 1): the
\* month i months before m.
MonthBack(m, i) == IF i = 0 THEN m ELSE MonthBack(PrevMonth(m), i - 1)

\* One cacheRemoveChunked(key) inside the try block of
\* clearCacheForDateRange: an exception ends the block.
RemoveNext(r, key) ==
  IF ~r.success THEN r
  ELSE LET q == CacheRemoveChunked(r.cache, key)
       IN [cache |-> q.cache, success |-> q.st = "ok"]

\* clearCacheForDateRange(startDate, endDate, location): the cache afterwards
\* and the success flag of the result.
ClearCacheForDateRange(c, startDate, endDate, location) ==
  RemoveNext(
    RemoveNext(
      RemoveNext([cache |-> c, success |-> TRUE],
                 "single:" \o ComputeDigest(DateStr(startDate) \o "|" \o DateStr(endDate))
                   \o ":" \o ComputeDigest(location)),
      "batch:" \o ComputeDigest(DateStr(startDate) \o "|" \o DateStr(endDate))),
    "master:" \o ComputeDigest(DateStr(startDate) \o "|" \o DateStr(endDate)))

\* One pass of the loop of clearCacheForLocation: q is what
\* cacheRemoveChunked left; its exception is swallowed and not counted.
RemovedMonth(r, q) ==
  [cache |-> q.cache, removed |-> r.removed + (IF q.st = "ok" THEN 1 ELSE 0)]

RECURSIVE ClearMonths(_, _, _, _, _)

\* The loop of clearCacheForLocation from pass i on; now is the current
\* month of the script's clock.  The count is never negative: the test on it
\* makes TLC evaluate r at every pass instead of nesting the passes.
ClearMonths(r, location, units, now, i) ==
  IF i >= ClearedMonths \/ r.removed < 0 THEN r
  ELSE ClearMonths(
         RemovedMonth(r, CacheRemoveChunked(r.cache,
                           MonthBucketKey(location, units, MonthBack(now, i)))),
         location, units, now, i + 1)

\* The result of clearCacheForLocation after its loop left r.
Cleared(r) == [cache |-> r.cache, success |-> TRUE, removed |-> r.removed]

\* clearCacheForLocation(location, units): the cache afterwards, the result's
\* success flag and its count.
ClearCacheForLocation(c, location, units, now) ==
  Cleared(ClearMonths([cache |-> c, removed |-> 0], location, units, now, 0))

\* ----------------------------------------- specification of the clearing
\* The location strings an operator clears: the configured location and the
\* addresses of the sheet's stores.
ClearLocations == {"Berlin, DE", "Berlin, Germany"}

ClearUnits == {"metric", "us"}

\* The current month of the script's clock when the cache is cleared: a
\* month of the data, or a month two years after it.
NowMonths == {Months[1], Months[2], Months[2] + 200}

\* An answer upstream gives while the cache is being stocked and cleared.
ClearEnvs == {[resp |-> [code |-> 200, json |-> TRUE], budget |-> Unlimited]}

\* The store keys of the month buckets of a location and units.
BucketEntries(location, units) ==
  UNION {KeyEntries(MonthBucketKey(location, units, m)) : m \in AllMonths}

\* Whether the call before, prev, was a getData for the range and location
\* that found the cache empty, answered and wrote entries.
WroteFor(prev, startDate, endDate, location) ==
  /\ prev.op = "getData" /\ prev.st = "ok" /\ prev.wrote /\ ~prev.stocked
  /\ prev.startDate = startDate /\ prev.endDate = endDate
  /\ (prev.mode = "single" => location = "Berlin, DE")

\* The number of upstream calls getData makes for the request of prev in
\* the cache c when upstream answers.
Replayed(c, prev, zone, shape) ==
  IF prev.op # "getData" THEN 0
  ELSE GetData(c, Request("KEY", prev.mode, prev.kind,
                          <<prev.startDate, prev.endDate>>, prev.dataType),
               [resp |-> [code |-> 200, json |-> TRUE], shape |-> shape,
                zone |-> zone, budget |-> Unlimited]).calls

InitClear ==
  /\ cache = <<>>
  /\ last = [op |-> "init"]
  /\ written = Unwritten
  /\ evictions = 0
  /\ queries = 0
  /\ tz \in TimeZones
  /\ up = [hours |-> TRUE, addr |-> "both"]
  /\ timing = <<>>
  /\ procs = <<>>

\* An operator calls clearCacheForDateRange.  The record keeps the store
\* keys left and what the request before would now ask upstream.
ClearRange(startDate, endDate, location) ==
  /\ last.op # "init"
  /\ \E out \in {ClearCacheForDateRange(cache, startDate, endDate, location)} :
       /\ cache' = out.cache
       /\ last' = [op |-> "clearRange", startDate |-> startDate, endDate |-> endDate,
                   location |-> location, success |-> out.success,
                   follows |-> WroteFor(last, startDate, endDate, location),
                   remaining |-> DOMAIN out.cache,
                   replay |-> Replayed(out.cache, last, tz, up)]
  /\ UNCHANGED <<written, evictions, queries, tz, up, procs, timing>>

\* An operator calls clearCacheForLocation when the clock reads month now.
\* The record keeps the months whose bucket can still be read and the store
\* keys of buckets left.
ClearLocation(location, units, now) ==
  /\ last.op # "init"
  /\ \E out \in {ClearCacheForLocation(cache, location, units, now)} :
       /\ cache' = out.cache
       /\ last' = [op |-> "clearLocation", location |-> location, units |-> units,
                   now |-> now, success |-> out.success, removed |-> out.removed,
                   before |-> {m \in AllMonths :
                     CacheGetChunked(cache, MonthBucketKey(location, units, m)).st # "null"},
                   remaining |-> {m \in AllMonths :
                     CacheGetChunked(out.cache, MonthBucketKey(location, units, m)).st # "null"},
                   left |-> DOMAIN out.cache \cap BucketEntries(location, units)]
  /\ UNCHANGED <<written, evictions, queries, tz, up, procs, timing>>

NextClear ==
  \/ \E mode \in Modes, kind \in Kinds, range \in DataRanges,
        dataType \in DataTypes, e \in ClearEnvs :
       GetDataCall("KEY", mode, kind, range, dataType, e)
  \/ \E range \in DataRanges, location \in ClearLocations :
       ClearRange(range[1], range[2], location)
  \/ \E location \in ClearLocations, units \in ClearUnits, now \in NowMonths :
       ClearLocation(location, units, now)

SpecClear == InitClear /\ [][NextClear]_vars

\* ------------------------------------------------- claims on the clearing
\* C18: after clearCacheForDateRange(startDate, endDate, location) returns
\* success, no entry written by the query before it for that range and
\* location remains in the store, and the same query asks upstream again.
C18_RangeCleared ==
  (last.op = "clearRange" /\ last.success /\ last.follows) =>
    (last.remaining = {} /\ last.replay >= 1)

\* C19: after clearCacheForLocation(location, units) returns success, no
\* month bucket of the location and units can be read for any month.
C19_LocationCleared ==
  (last.op = "clearLocation" /\ last.success) => last.remaining = {}

\* ------------------------------------------------ claims on the cache keys
\* C21: a batch request whose lookup finds an entry finds one written by a
\* request with the same location set, date range, units and granularity.
C21_KeyIsFingerprint ==
  (last.op = "batch" /\ last.found = "value" /\ last.readOf.known) =>
    last.readOf = Components(SheetStores, last.startDate, last.endDate, "metric",
                             last.dataType)

\* --------------------------------------------------- claims on the rows
\* C22: every row getData returns holds one value per requested field.
C22_RowsAlignedToFields ==
  (last.op = "getData" /\ last.st = "ok") =>
    \A i \in 1..Len(last.rows) : Len(last.rows[i].values) = Len(last.fields)

\* ------------------------------------- claims on the answers of the range cache
\* C23: a single-location query answered from the range cache returns a
\* record for every date of its range, as upstream holds one for each.
C23_HitComplete ==
  (last.op = "query" /\ last.trace = HitTrace) =>
    \A d \in AllDates :
      (last.startDate <= d /\ d <= last.endDate) =>
        \E i \in 1..Len(last.rows) : last.rows[i].rec.datetime = d

\* The rows the upstream path of fetchVCSingle_ returns for a range when
\* upstream answers with a payload of the given shape.
FetchedRows(location, dataType, startDate, endDate, shape) ==
  OutRows(UpstreamJson(location, startDate, endDate, shape).days, dataType,
          Or3(UpstreamJson(location, startDate, endDate, shape).resolvedAddress,
              UpstreamJson(location, startDate, endDate, shape).address, location))

\* C24: a single-location query answered from the range cache returns the
\* record sequence the upstream path returns for the same upstream data: one
\* record per hour for hourly queries, one per day for daily ones.
C24_HitEqualsFetch ==
  (last.op = "query" /\ last.trace = HitTrace) =>
    last.rows = FetchedRows(last.params[1], last.params[3], last.startDate,
                            last.endDate, up)

\* ------------------------------------------- claims on the layout of a write
\* Math.ceil(a / b) for positive integers.
CeilDiv(a, b) == (a + b - 1) \div b

\* The chunk keys key_chunk_0 .. key_chunk_(n-1), in index order.
ChunkKeys(key, n) == [i \in 1..n |-> ChunkKey(key, i - 1)]

\* C25: right after a cachePutChunked of a text s longer than MAX_CACHE_SIZE
\* the store holds n = ceil(Len(s) / CHUNK_SIZE) >= 2 chunks, chunk i being
\* the non-empty piece of s from i * CHUNK_SIZE up to (i + 1) * CHUNK_SIZE or
\* the end of s, and a metadata record that lists the n keys in index order
\* with totalSize Len(s) and chunkCount n; the listed chunks joined give s.
C25_ChunkLayout ==
  (last.op = "put" /\ Len(Stringify(last.val)) > MAX_CACHE_SIZE) =>
    LET s == Stringify(last.val)
        n == CeilDiv(Len(s), CHUNK_SIZE)
        meta == StoreGet(cache, MetaKey(last.key))
    IN /\ n >= 2 /\ last.chunks = n
       /\ \A i \in 0..(n - 1) :
            /\ StoreGet(cache, ChunkKey(last.key, i))
                 = SubSeq(s, i * CHUNK_SIZE + 1, Min((i + 1) * CHUNK_SIZE, Len(s)))
            /\ StoreGet(cache, ChunkKey(last.key, i)) # <<>>
       /\ ParseMeta(meta).ok
       /\ ParseMeta(meta).chunks = ChunkKeys(last.key, n)
       /\ meta[Len(meta) - 2] = ToString(Len(s))
       /\ meta[Len(meta) - 1] = ToString(n)
       /\ JoinChunks(cache, ParseMeta(meta).chunks) = s

C25_Witness ==
  /\ last.op = "put" /\ Len(Stringify(last.val)) > MAX_CACHE_SIZE
  /\ last.chunks = 3
  /\ Len(StoreGet(cache, ChunkKey(last.key, 2))) < CHUNK_SIZE
  /\ JoinChunks(cache, ChunkKeys(last.key, 3)) = Stringify(last.val)

\* C26: every direct entry and every chunk in the store is at most
\* MAX_CACHE_SIZE long, every chunk at most CHUNK_SIZE, and CHUNK_SIZE is
\* less than MAX_CACHE_SIZE.
C26_CeilingRespected ==
  /\ CHUNK_SIZE < MAX_CACHE_SIZE
  /\ \A k \in DOMAIN cache :
       /\ k # MetaKey(ScratchKey) => Len(cache[k]) <= MAX_CACHE_SIZE
       /\ k \notin {ScratchKey, MetaKey(ScratchKey)} => Len(cache[k]) <= CHUNK_SIZE

C26_Witness ==
  /\ last.op = "put" /\ last.chunks >= 2
  /\ Len(StoreGet(cache, ChunkKey(ScratchKey, 0))) = CHUNK_SIZE
  /\ Len(Stringify(last.val)) > MAX_CACHE_SIZE

\* C27: a cachePutChunked of a text of at most MAX_CACHE_SIZE puts the text
\* under the key and changes no other entry of the store, and returns
\* chunks = 1.
C27_DirectPathOnly ==
  [][(last'.op = "put" /\ Len(Stringify(last'.val)) <= MAX_CACHE_SIZE) =>
       (/\ cache' = StorePut(cache, last'.key, Stringify(last'.val))
        /\ last'.chunks = 1)]_vars

C27_Witness ==
  /\ last.op = "put" /\ Len(Stringify(last.val)) = MAX_CACHE_SIZE
  /\ last.chunks = 1 /\ ~last.fresh
  /\ StoreHas(cache, MetaKey(last.key)) /\ StoreHas(cache, ChunkKey(last.key, 0))
  /\ StoreGet(cache, last.key) = Stringify(last.val)

\* C30: a read that directly follows a chunked write which directly followed
\* a chunked write of another chunk count returns the value of the newer
\* write.
C30_NoStaleChunkRead ==
  (/\ last.op = "get" /\ last.before.op = "put"
   /\ last.before.chunks >= 2 /\ last.before.over >= 2
   /\ last.before.over # last.before.chunks) =>
    (last.st = "value" /\ last.ret = last.before.val)

\* ------------------------------------------------ expiration of entries
\* var expiration = sec || CACHE_MIN*60; sec is 0 when the caller gives none
\* (undefined and 0 are both falsy).
Expiration(sec) == IF sec = 0 THEN CACHE_MIN * 60 ELSE sec

\* Mutant of StepExpiration: the metadata record is put with the default
\* expiration.
StepExpirationMetaDefault(w, step) ==
  IF step.key = MetaKey(w.key) THEN CACHE_MIN * 60 ELSE w.expiration

\* The expiration a cache.put of the call w passes: the variable expiration,
\* set once at the start of cachePutChunked.
StepExpiration(w, step) == w.expiration

\* The store keys cacheGetChunked(key) takes its result from.
ReadKeys(c, key) ==
  IF StoreHas(c, key) THEN {key}
  ELSE IF ~StoreHas(c, MetaKey(key)) \/ ~ParseMeta(StoreGet(c, MetaKey(key))).ok
  THEN {}
  ELSE {MetaKey(key)}
       \cup (SeqToSet(ParseMeta(StoreGet(c, MetaKey(key))).chunks) \cap DOMAIN c)

\* ------------------------------------ specification of the expiration
\* The expirations a caller passes: none (0), the CACHE_MIN * 60 of the
\* program's own calls, and a longer one.
Secs == {0, CACHE_MIN * 60, 2 * CACHE_MIN * 60}

\* A direct value and a chunked one.
TimedValues == {Bucket("Berlin, Germany", "Berlin, DE", FirstDays(n, TRUE)) : n \in {0, 2}}

IdleCall == [pc |-> "idle"]

NoWrite == [known |-> FALSE]

\* The store is empty at time 0: expiry maps each stored key to the time its
\* entry expires, w is the cachePutChunked call in progress, lw the last
\* completed one.
InitTimed ==
  /\ cache = <<>>
  /\ last = [op |-> "init"]
  /\ written = Unwritten
  /\ evictions = 0
  /\ queries = 0
  /\ tz = 0
  /\ up = [hours |-> TRUE, addr |-> "both"]
  /\ procs = <<>>
  /\ timing = [now |-> 0, expiry |-> <<>>, w |-> IdleCall, lw |-> NoWrite]

\* cachePutChunked(ScratchKey, v, sec) starts: the text is serialized and the
\* expiration computed.
Begin(v, sec) ==
  /\ timing.w.pc = "idle"
  /\ queries < MaxQueries
  /\ queries' = queries + 1
  /\ timing' = [timing EXCEPT !.w =
                  [pc |-> "put", key |-> ScratchKey, val |-> v, sec |-> sec,
                   expiration |-> Expiration(sec), began |-> timing.now,
                   steps |-> PutSteps(ScratchKey, v), used |-> {}]]
  /\ UNCHANGED <<cache, last, written, evictions, tz, up, procs>>

\* The entries of c after a put of key at time now with expiration e.
Expiring(expiry, key, now, e) ==
  [k \in DOMAIN expiry \cup {key} |-> IF k = key THEN now + e ELSE expiry[k]]

\* The record of the call w, completed at time now by a put with
\* expiration e.
Completed(w, now, e) ==
  [op |-> "put", key |-> w.key, val |-> w.val, sec |-> w.sec,
   used |-> w.used \cup {e}, puts |-> Len(PutSteps(w.key, w.val)),
   began |-> w.began, ended |-> now]

\* The next cache.put(key, text, expiration) of the call in progress.
TimedPut ==
  /\ timing.w.pc = "put"
  /\ \E step \in {Head(timing.w.steps)} :
       \E e \in {StepExpiration(timing.w, step)} :
         /\ cache' = StorePut(cache, step.key, step.text)
         /\ IF Len(timing.w.steps) = 1
            THEN /\ timing' = [timing EXCEPT
                               !.expiry = Expiring(@, step.key, timing.now, e),
                               !.w = IdleCall,
                               !.lw = [known |-> TRUE, began |-> timing.w.began,
                                       ended |-> timing.now,
                                       expiration |-> timing.w.expiration]]
                 /\ last' = Completed(timing.w, timing.now, e)
            ELSE /\ timing' = [timing EXCEPT
                               !.expiry = Expiring(@, step.key, timing.now, e),
                               !.w.steps = Tail(@),
                               !.w.used = @ \cup {e}]
                 /\ last' = last
  /\ UNCHANGED <<written, evictions, queries, tz, up, procs>>

\* TickLen seconds pass; the entries whose expiration has run out are gone.
Tick ==
  /\ timing.now < MaxTicks * TickLen
  /\ \E live \in {{k \in DOMAIN cache : timing.expiry[k] > timing.now + TickLen}} :
       /\ cache' = [k \in live |-> cache[k]]
       /\ timing' = [timing EXCEPT !.now = @ + TickLen,
                                    !.expiry = [k \in live |-> timing.expiry[k]]]
  /\ UNCHANGED <<last, written, evictions, queries, tz, up, procs>>

\* cacheGetChunked(ScratchKey) while no write is in progress; aged says
\* whether an entry it read was put more than its expiration earlier.
TimedGet ==
  /\ timing.w.pc = "idle"
  /\ \E r \in {CacheGetChunked(cache, ScratchKey)} :
       last' = [op |-> "get", key |-> ScratchKey, st |-> r.st, ret |-> r.v,
                at |-> timing.now, lw |-> timing.lw,
                aged |-> \E k \in ReadKeys(cache, ScratchKey) :
                           timing.expiry[k] < timing.now]
  /\ UNCHANGED <<cache, written, evictions, queries, tz, up, procs, timing>>

NextTimed ==
  \/ \E v \in TimedValues, sec \in Secs : Begin(v, sec)
  \/ TimedPut
  \/ Tick
  \/ TimedGet

SpecTimed == InitTimed /\ [][NextTimed]_vars

\* ----------------------------------------------- claims on the expiration
\* C28: every cache.put of one cachePutChunked call passes the same
\* expiration: the caller's, or 300 seconds when the caller gives none.
C28_SharedTtl ==
  last.op = "put" =>
    last.used = {IF last.sec = 0 THEN 300 ELSE last.sec}

C28_Witness ==
  /\ last.op = "put" /\ last.sec = 2 * CACHE_MIN * 60 /\ last.puts >= 3
  /\ last.used = {2 * CACHE_MIN * 60}
  /\ \A k \in DOMAIN cache : timing.expiry[k] <= timing.now + last.sec

\* C29: a read returns nothing put more than its expiration earlier, and a
\* read made once the expiration of the last write has elapsed since that
\* write started returns absent.
C29_FreshnessBound ==
  last.op = "get" =>
    /\ last.st = "value" => ~last.aged
    /\ (last.lw.known /\ last.at >= last.lw.began + last.lw.expiration) =>
         last.st = "null"

\* ------------------------------------- specification of the pure functions
\* The dates getMonthsInRange_ is called with: every day of four months
\* around the turn of the year.
RangeMonths == <<PrevMonth(Months[1]), Months[1], Months[2], NextMonth(Months[2])>>

RangeDates == {RangeMonths[i] * 100 + d : i \in 1..Len(RangeMonths), d \in 1..MonthLen}

\* The longest store list: two full batches and a shorter one.
MaxStores == 2 * BatchSize + 2

\* The first n rows of a sheet whose store ids start after off.
StoreList(n, off) == [i \in 1..n |-> Store("s" \o ToString(off + i), "Berlin, DE")]

\* groupLocationsForBatch_(stores): the batches returned and the caller's
\* list afterwards.  The splices act on copy = stores.slice(), so stores is
\* as it was.
GroupedStores(stores) ==
  [chunks |-> GroupLocationsForBatch(stores), stores |-> stores]

InitFunctions ==
  /\ cache = <<>>
  /\ last = [op |-> "init"]
  /\ written = Unwritten
  /\ evictions = 0
  /\ queries = 0
  /\ tz \in TimeZones
  /\ up = [hours |-> TRUE, addr |-> "both"]
  /\ procs = <<>>
  /\ timing = <<>>

\* getMonthsInRange_(startDate, endDate) is called.
MonthsCall(startDate, endDate) ==
  /\ last' = [op |-> "months", startDate |-> startDate, endDate |-> endDate,
              months |-> GetMonthsInRange(startDate, endDate, tz)]
  /\ UNCHANGED <<cache, written, evictions, queries, tz, up, procs, timing>>

\* groupLocationsForBatch_(stores) is called.
GroupCall(stores) ==
  /\ \E r \in {GroupedStores(stores)} :
       last' = [op |-> "group", input |-> stores, chunks |-> r.chunks,
                stores |-> r.stores]
  /\ UNCHANGED <<cache, written, evictions, queries, tz, up, procs, timing>>

NextFunctions ==
  \/ \E startDate \in RangeDates, endDate \in RangeDates : MonthsCall(startDate, endDate)
  \/ \E n \in 0..MaxStores, off \in 0..1 : GroupCall(StoreList(n, off))

SpecFunctions == InitFunctions /\ [][NextFunctions]_vars

\* ------------------------------------------ claims on the month enumeration
RECURSIVE MonthsFromTo(_, _)

\* The calendar months from m to n in ascending order.
MonthsFromTo(m, n) == IF m > n THEN <<>> ELSE <<m>> \o MonthsFromTo(NextMonth(m), n)

\* C31: for start <= end getMonthsInRange_ returns exactly the calendar
\* months from the month of the start date to the month of the end date, in
\* ascending order and without duplicates; for start > end it returns the
\* empty list.
C31_MonthsTouched ==
  last.op = "months" =>
    last.months = IF last.startDate <= last.endDate
                  THEN MonthsFromTo(MonthOfDate(last.startDate), MonthOfDate(last.endDate))
                  ELSE <<>>

\* C32: write and read agree on the month of a date: the bucket
\* cacheDataByMonthChunks_ stores a record in is one of the months
\* getMonthsInRange_ enumerates for every range that holds the record's
\* date, and the range filter of mergeCachedData_ keeps the record.
C32_WriteReadAgree ==
  (last.op = "query" /\ last.trace = MissTrace) =>
    \A m \in AllMonths : \A i \in 1..Len(last.grouped[m]) :
      \A startDate \in QueryDates, endDate \in QueryDates :
        (startDate <= last.grouped[m][i].datetime
           /\ last.grouped[m][i].datetime <= endDate) =>
          /\ m \in SeqToSet(GetMonthsInRange(startDate, endDate, tz))
          /\ InRange(last.grouped[m][i], startDate, endDate)

\* West of UTC a record dated the first of a month was stored in the bucket
\* of the month before.
C32_Witness ==
  /\ last.op = "query" /\ last.trace = MissTrace /\ tz < 0
  /\ \E i \in 1..Len(last.grouped[Months[1]]) :
       /\ last.grouped[Months[1]][i].datetime = Months[2] * 100 + 1
       /\ Months[1] \in SeqToSet(GetMonthsInRange(Months[2] * 100 + 1, Months[2] * 100 + 1, tz))
       /\ Months[2] \notin SeqToSet(GetMonthsInRange(Months[2] * 100 + 1, Months[2] * 100 + 1, tz))

\* ------------------------------------ specification of the month buckets
\* Mutant of StoreAfterGet: a read that finds a torn entry removes its
\* metadata record.
StoreAfterGetDropsTorn(c, key) ==
  IF Torn(c, key) THEN StoreRemove(c, MetaKey(key)) ELSE c

\* The store after cacheGetChunked(key): the function calls cache.get and
\* nothing else of the store.
StoreAfterGet(c, key) == c

RECURSIVE StoreAfterReads(_, _, _, _)

\* The store after the months.forEach loop of getCachedDataForRange_.
StoreAfterReads(c, location, units, months) ==
  IF months = <<>> THEN c
  ELSE StoreAfterReads(StoreAfterGet(c, MonthBucketKey(location, units, Head(months))),
                       location, units, Tail(months))

\* The (location, units) pairs queried; one location holds the separator of
\* the hashed string.
BucketPairs ==
  {<<"Berlin, DE", "metric">>, <<"Berlin, DE", "us">>, <<"Berlin, DE|us", "metric">>}

\* The ranges populated and read: across the month boundary, and the first
\* two days of a month.
BucketRanges ==
  {<<Months[1] * 100 + MonthLen, Months[2] * 100 + 1>>,
   <<Months[2] * 100 + 1, Months[2] * 100 + 2>>}

\* The timeline responses populated: the days of a range, or no days.
BucketJsons(location) ==
  {UpstreamJson(location, r[1], r[2], [hours |-> TRUE, addr |-> "both"]) : r \in BucketRanges}
  \cup {Bucket("Berlin, Germany", location, <<>>)}

\* The store keys whose entry differs between the stores c and d.
Changed(c, d) ==
  {k \in DOMAIN c \cup DOMAIN d : ~(k \in DOMAIN c /\ k \in DOMAIN d /\ c[k] = d[k])}

\* Every store key of the bucket of one of the months ms of a pair.
BucketKeyEntries(location, units, ms) ==
  UNION {KeyEntries(MonthBucketKey(location, units, m)) : m \in ms}

\* The store keys getCachedDataForRange_ takes its result from.
RangeReadKeys(c, location, units, months) ==
  UNION {ReadKeys(c, MonthBucketKey(location, units, months[i])) : i \in 1..Len(months)}

\* written maps each store key to the pair whose population put it last.
\* The script runs west of UTC or at UTC; east of UTC every date reads as
\* it does at UTC.
InitBuckets ==
  /\ cache = <<>>
  /\ last = [op |-> "init"]
  /\ written = <<>>
  /\ evictions = 0
  /\ queries = 0
  /\ tz \in {z \in TimeZones : z <= 0}
  /\ up = [hours |-> TRUE, addr |-> "both"]
  /\ procs = <<>>
  /\ timing = <<>>

\* cacheDataByMonthChunks_(location, json, cfg) with cfg.units = units.
Populate(location, units, json) ==
  /\ queries < MaxQueries
  /\ queries' = queries + 1
  /\ \E d \in {CacheDataByMonthChunks(cache, location, units, json, tz)} :
       \E steps \in {MonthSteps(location, units, json, MonthKeysOf(json.days, tz, {}), tz)} :
         /\ cache' = d
         /\ written' = [k \in DOMAIN d |->
                          IF \E i \in 1..Len(steps) : steps[i].key = k
                          THEN <<location, units>> ELSE written[k]]
         /\ last' = [op |-> "populate", location |-> location, units |-> units,
                     dates |-> {json.days[i].datetime : i \in 1..Len(json.days)},
                     puts |-> Len(steps),
                     changed |-> Changed(cache, d),
                     held |-> DOMAIN cache]
  /\ UNCHANGED <<evictions, tz, up, procs, timing>>

\* getCachedDataForRange_(location, range, cfg) with cfg.units = units.
RangeRead(location, units, startDate, endDate) ==
  /\ \E months \in {GetMonthsInRange(startDate, endDate, tz)} :
       /\ \E r \in {RangeOutcome(MonthReads(cache, location, units, months),
                                  startDate, endDate)} :
            last' = [op |-> "rangeread", location |-> location, units |-> units,
                     st |-> r.st, rows |-> r.rows,
                     owners |-> {written[k] : k \in RangeReadKeys(cache, location, units, months)},
                     torn |-> \E m \in AllMonths :
                                Torn(cache, MonthBucketKey(location, units, m))]
       /\ cache' = StoreAfterReads(cache, location, units, months)
  /\ UNCHANGED <<written, evictions, queries, tz, up, procs, timing>>

\* cacheGetChunked of the bucket of one month.
BucketGet(location, units, m) ==
  /\ \E r \in {CacheGetChunked(cache, MonthBucketKey(location, units, m))} :
       last' = [op |-> "get", location |-> location, units |-> units,
                st |-> r.st, rows |-> <<>>,
                owners |-> {written[k] : k \in ReadKeys(cache, MonthBucketKey(location, units, m))},
                torn |-> Torn(cache, MonthBucketKey(location, units, m))]
  /\ cache' = StoreAfterGet(cache, MonthBucketKey(location, units, m))
  /\ UNCHANGED <<written, evictions, queries, tz, up, procs, timing>>

\* The script cache drops one chunk of a chunked bucket.
DropEntry(k) ==
  /\ evictions < MaxEvictions
  /\ \A p \in BucketPairs, m \in AllMonths :
       k \notin {MonthBucketKey(p[1], p[2], m), MetaKey(MonthBucketKey(p[1], p[2], m))}
  /\ evictions' = evictions + 1
  /\ cache' = StoreRemove(cache, k)
  /\ written' = [j \in DOMAIN cache \ {k} |-> written[j]]
  /\ last' = [op |-> "evict", key |-> k]
  /\ UNCHANGED <<queries, tz, up, procs, timing>>

NextBuckets ==
  \/ \E p \in BucketPairs : \E json \in BucketJsons(p[1]) : Populate(p[1], p[2], json)
  \/ \E p \in BucketPairs, r \in BucketRanges : RangeRead(p[1], p[2], r[1], r[2])
  \/ \E p \in BucketPairs, m \in MonthSet : BucketGet(p[1], p[2], m)
  \/ \E k \in DOMAIN cache : DropEntry(k)

SpecBuckets == InitBuckets /\ [][NextBuckets]_vars

\* ---------------------------------------------- claims on the month buckets
\* C33: cacheDataByMonthChunks_ changes only entries of the buckets of the
\* calendar months that occur among the fetched records, for the location
\* and units it is called with, and a response with no records writes
\* nothing.
C33_PopulateFrame ==
  last.op = "populate" =>
    /\ last.changed \subseteq
         BucketKeyEntries(last.location, last.units, {MonthOfDate(d) : d \in last.dates})
    /\ last.dates = {} => (last.puts = 0 /\ last.changed = {})

\* ------------------------------------------------ claims on the empty hit
\* C34 as stated: when the bucket of every touched month is present and no
\* cached record lies in the range, fetchVCSingle_ takes the lookup as a
\* miss, calls upstream once and populates the buckets again.
C34_EmptyHitRefetches ==
  (last.op = "query" /\ last.absent = {} /\ last.inRange = {}) =>
    (last.trace = MissTrace /\ last.calls = 1 /\ last.wrote)

\* C34 as amended: in that case the lookup is never a hit and upstream is
\* called exactly once; when it answers with a status below 400 and a body
\* that parses, the buckets are populated and the fetched rows returned;
\* otherwise an error is thrown and nothing is written.
C34_EmptyHitIsMiss ==
  (last.op = "query" /\ last.absent = {} /\ last.inRange = {}) =>
    /\ last.trace # HitTrace /\ last.calls = 1
    /\ ~FetchFails(last.resp) =>
         /\ last.trace = MissTrace /\ last.wrote /\ last.st = "ok"
         /\ Len(last.rows) > 0
    /\ FetchFails(last.resp) =>
         (last.trace = AbortTrace /\ ~last.wrote /\ last.st = "error")

\* The lookup found every month and returned no row; the resolution fetched
\* and populated.
C34_Witness ==
  /\ last.op = "query" /\ last.absent = {} /\ last.inRange = {}
  /\ last.cachedSt = "rows" /\ last.cachedRows = <<>>
  /\ last.trace = MissTrace /\ last.calls = 1 /\ last.wrote

\* ----------------------------------------------------- claims on the reads
\* C35: cacheGetChunked and getCachedDataForRange_ never put or remove a
\* store entry: every step that is one of these reads leaves the store as
\* it was, also when the read finds a torn entry.
C35_ReadsLeaveStore ==
  [][(last'.op \in {"rangeread", "get"} /\ queries' = queries /\ evictions' = evictions)
       => cache' = cache]_vars

\* A range read found a torn bucket, returned null, and the metadata record
\* with its missing chunk is still in place.
C35_Witness ==
  /\ last.op = "rangeread" /\ last.torn /\ last.st = "null"
  /\ \E m \in AllMonths : Torn(cache, MonthBucketKey(last.location, last.units, m))

\* C36: the key of a month bucket is determined by exactly (location,
\* units, month): different triples have different keys, and every entry a
\* read for a location and unit system takes its result from was put by a
\* population for that same location and unit system.
C36_KeyIsolation ==
  /\ \A p \in BucketPairs, q \in BucketPairs, m \in AllMonths, n \in AllMonths :
       MonthBucketKey(p[1], p[2], m) = MonthBucketKey(q[1], q[2], n) => (p = q /\ m = n)
  /\ last.op \in {"rangeread", "get"} =>
       last.owners \subseteq {<<last.location, last.units>>}

\* A range read returned rows of its own pair while the store also holds a
\* bucket of the same location in the other unit system.
C36_Witness ==
  /\ last.op = "rangeread" /\ last.st = "rows" /\ Len(last.rows) > 0
  /\ last.owners = {<<last.location, last.units>>}
  /\ \E k \in DOMAIN written :
       written[k][1] = last.location /\ written[k][2] # last.units

\* ------------------------------------------------- clearCacheByPattern
\* key.includes(pattern)
Includes(key, pattern) ==
  IF Len(pattern) = 0 THEN TRUE
  ELSE \E i \in 1..(Len(key) - Len(pattern) + 1) :
         SubSeq(key, i, i + Len(pattern) - 1) = pattern

RECURSIVE SetToSeq(_)

SetToSeq(S) ==
  IF S = {} THEN <<>>
  ELSE LET k == CHOOSE x \in S : TRUE IN <<k>> \o SetToSeq(S \ {k})

Reverse(q) == [i \in 1..Len(q) |-> q[Len(q) + 1 - i]]

\* cache.getKeys() when the cache object has such a method: the keys of the
\* store, in one order or in the opposite one.
GetKeys(c, rev) == IF rev THEN Reverse(SetToSeq(DOMAIN c)) ELSE SetToSeq(DOMAIN c)

\* One matching key of the forEach: q is what cacheRemoveChunked did; its
\* exception ends the loop.
RemovedKey(r, q) ==
  IF q.st = "error" THEN [cache |-> q.cache, removed |-> r.removed, ok |-> FALSE]
  ELSE [cache |-> q.cache, removed |-> r.removed + 1, ok |-> TRUE]

RECURSIVE RemoveMatching(_, _, _)

\* keys.forEach(function(key) { if (key.includes(pattern)) ... })
RemoveMatching(r, keys, pattern) ==
  IF keys = <<>> \/ ~r.ok THEN r
  ELSE IF Includes(Head(keys), pattern)
  THEN RemoveMatching(RemovedKey(r, CacheRemoveChunked(r.cache, Head(keys))),
                      Tail(keys), pattern)
  ELSE RemoveMatching(r, Tail(keys), pattern)

\* What clearCacheByPattern returns after the loop r; a result with
\* success false has no removed count, written -1.
PatternCleared(r) ==
  [cache |-> r.cache, success |-> r.ok, removed |-> IF r.ok THEN r.removed ELSE -1]

\* clearCacheByPattern(pattern).  listing says whether the cache object has
\* a getKeys method: the script cache of Apps Script documents get, getAll,
\* put, putAll, remove and removeAll only, and without the method the call
\* cache.getKeys() throws a TypeError, which the catch turns into a result
\* with success false.
ClearCacheByPattern(c, pattern, listing, rev) ==
  IF ~listing THEN [cache |-> c, success |-> FALSE, removed |-> -1]
  ELSE PatternCleared(RemoveMatching([cache |-> c, removed |-> 0, ok |-> TRUE],
                                     GetKeys(c, rev), pattern))

PatternKeys == {"master:a", "batch:a"}

Patterns == {"master:", ":a", "_meta", "_chunk_1", "sheet"}

InitPattern ==
  /\ cache = <<>>
  /\ last = [op |-> "init"]
  /\ written = Unwritten
  /\ evictions = 0
  /\ queries = 0
  /\ tz = 0
  /\ up = [hours |-> TRUE, addr |-> "both"]
  /\ procs = <<>>
  /\ timing = <<>>

\* cachePutChunked(key, v, CACHE_MIN*60)
PatternPut(key, v) ==
  /\ queries < MaxQueries
  /\ queries' = queries + 1
  /\ cache' = CachePutChunked(cache, key, v).cache
  /\ last' = [op |-> "put", key |-> key]
  /\ UNCHANGED <<written, evictions, tz, up, procs, timing>>

\* clearCacheByPattern(pattern): matched are the store keys that contain the
\* pattern, left those of them still stored afterwards, kept says whether
\* every other entry is as it was.
ClearByPattern(pattern, listing, rev) ==
  /\ \E r \in {ClearCacheByPattern(cache, pattern, listing, rev)} :
       /\ cache' = r.cache
       /\ last' = [op |-> "clear", pattern |-> pattern, listing |-> listing,
                   success |-> r.success, removed |-> r.removed,
                   matched |-> {k \in DOMAIN cache : Includes(k, pattern)},
                   left |-> {k \in DOMAIN r.cache : Includes(k, pattern)},
                   kept |-> \A k \in DOMAIN cache :
                              Includes(k, pattern)
                                \/ (k \in DOMAIN r.cache /\ r.cache[k] = cache[k])]
  /\ UNCHANGED <<written, evictions, queries, tz, up, procs, timing>>

NextPattern ==
  \/ \E key \in PatternKeys, v \in TimedValues : PatternPut(key, v)
  \/ \E pattern \in Patterns, listing \in BOOLEAN, rev \in BOOLEAN :
       ClearByPattern(pattern, listing, rev)

SpecPattern == InitPattern /\ [][NextPattern]_vars

\* C37: clearCacheByPattern removes every store entry whose key contains the
\* pattern, leaves every other entry unchanged, and reports as removed the
\* number of store keys that contained the pattern.
C37_PatternCleared ==
  last.op = "clear" =>
    /\ last.left = {}
    /\ last.kept
    /\ last.removed = Cardinality(last.matched)

\* ------------------------------------------- claims on the widget branch
\* The place of the date among the fields of a dataset.
DateIndex(fields) == CHOOSE i \in 1..Len(fields) : fields[i] = "date"

\* The rows of a master dataset built with the given fields whose date lies
\* in [startDate, endDate], in master order.
RowsInRange(rows, fields, startDate, endDate) ==
  LET Dated(row) == /\ WidgetDate(row.values[DateIndex(fields)]) >= startDate
                    /\ WidgetDate(row.values[DateIndex(fields)]) <= endDate
  IN SelectSeq(rows, Dated)

\* C38: a widget request whose master entry is present makes no upstream
\* call and returns exactly the master rows whose date lies in its range, in
\* master order; when the entry is absent it falls back to a direct fetch
\* for its range.
C38_WidgetServedFromMaster ==
  (last.op = "getData" /\ last.kind = "widget" /\ last.keyed) =>
    /\ (last.master.st = "value" /\ last.masterFields # <<>>) =>
         /\ last.st = "ok"
         /\ last.calls = 0
         /\ last.rows = RowsInRange(last.master.rows, last.masterFields,
                                    last.startDate, last.endDate)
    /\ last.master.st = "null" => last.reads >= 2

\* ------------------------------------------------ claims on the batches
RECURSIVE Concatenated(_)

\* The batches of a list, one after the other.
Concatenated(chunks) ==
  IF chunks = <<>> THEN <<>> ELSE Head(chunks) \o Concatenated(Tail(chunks))

\* C39: groupLocationsForBatch_ cuts the store list into consecutive batches
\* of at most 25 stores: no batch is empty, every batch but the last holds
\* exactly 25, the batches concatenated in order are the input list, and the
\* input list is as it was.
C39_BatchesPartition ==
  last.op = "group" =>
    /\ \A i \in 1..Len(last.chunks) :
         /\ Len(last.chunks[i]) >= 1
         /\ Len(last.chunks[i]) <= BatchSize
         /\ i < Len(last.chunks) => Len(last.chunks[i]) = BatchSize
    /\ Concatenated(last.chunks) = last.input
    /\ last.stores = last.input

\* A list of two whole batches and two more stores was cut into three.
C39_Witness ==
  /\ last.op = "group"
  /\ Len(last.input) = 2 * BatchSize + 2
  /\ Len(last.chunks) = 3
  /\ Len(last.chunks[3]) = 2
====
